---- MODULE Spec2Model ----
(***************************************************************************)
(* A model of the asyncapi CLI extension subsystem: the HookManager        *)
(* (priority ordered hook chains, per-hook timeout race, shared            *)
(* HookContext), the command-not-found handler built on it, the bounded    *)
(* command history, and the plugin loader.                                 *)
(*                                                                         *)
(* One action is one synchronous turn of the JavaScript event loop: the    *)
(* code that runs between two awaits.  Any number of execute calls and of  *)
(* command-not-found runs may be in flight; each has its own frame.        *)
(* Strings whose characters matter (command ids, paths) are sequences of   *)
(* one-character strings.                                                  *)
(***************************************************************************)
EXTENDS Integers, Sequences, FiniteSets, TLC

VARIABLES
  hooks,          \* HookManager.hooks: hook name -> chain (a Map, has(name) is name \in DOMAIN hooks)
  context,        \* the manager's HookContext: its data object (own properties, prototype)
  regCount,       \* number of register calls so far (gives each registration its identity)
  hookImports,    \* the files of <cwd>/hooks whose import has settled
  contextCalls,   \* number of calls other code has made on the context it was handed
  calls,          \* the execute calls made so far, one frame each
  pending,        \* work of timed-out handlers that is still running
  timers,         \* timers still armed although their handler won the race
  runs,           \* the command-not-found runs started so far, one frame each
  config,         \* the CLI's long-lived Config object (its commandHistory property)
  appended,       \* history: every entry ever pushed to config.commandHistory, in order
  now,            \* the wall clock, as new Date() reads it
  registry,       \* pluginRegistry: the registered plugins, in order of first registration
  registered,     \* history: the plugin given to every registerPlugin call, in order
  loadPc,         \* position of the loadPlugins call
  loadDisk,       \* what the call finds: the two listings and the configuration search
  loadIdx,        \* index of the candidate or plugin being awaited
  initPlugins,    \* the local variable plugins of initializePlugins
  loadLog         \* history: the steps of the loadPlugins call, in order

vars == <<hooks, context, regCount, hookImports, contextCalls, calls, pending, timers, runs,
          config, appended, now,
          registry, registered, loadPc, loadDisk, loadIdx, initPlugins, loadLog>>

hookVars == <<hooks, regCount, hookImports, contextCalls>>
histVars == <<config, appended, now>>
loaderVars == <<registry, registered, loadPc, loadDisk, loadIdx, initPlugins, loadLog>>

(***************************************************************************)
(* JavaScript values.                                                      *)
(***************************************************************************)
\* JavaScript values whose kind the code looks at: undefined, null, a
\* primitive (number, string, boolean), Object.prototype, and an object with
\* its own properties and its prototype.  A value the code only stores and
\* hands on is written as it is.
Undefined == [js |-> "undefined"]

Null == [js |-> "null"]

Primitive(v) == [js |-> "primitive", value |-> v]

ObjectPrototype == [js |-> "Object.prototype"]

\* Object.create(prototype) with the own properties given.
ObjectCreate(prototype, own) == [js |-> "object", prototype |-> prototype, own |-> own]

\* An object with no own property ({} / the omitted options argument).
EmptyObject == [k \in {} |-> 0]

\* obj[key] = value on a Map or on an object, for a key that no setter of
\* the prototype intercepts.
SetKey(obj, key, value) ==
  [k \in DOMAIN obj \cup {key} |-> IF k = key THEN value ELSE obj[k]]

\* { ...a, ...b }
Spread(a, b) ==
  [k \in DOMAIN a \cup DOMAIN b |-> IF k \in DOMAIN b THEN b[k] ELSE a[k]]

\* n || fallback for a number n: 0 is falsy.
OrElse(n, fallback) == IF n = 0 THEN fallback ELSE n

(***************************************************************************)
(* HookContext.  this.data is a plain object: data holds its own           *)
(* properties, proto is its prototype (Object.prototype until a            *)
(* set('__proto__', ...) replaces it).                                     *)
(***************************************************************************)
\* The property names of Object.prototype.
ObjectPrototypeNames ==
  {"constructor", "hasOwnProperty", "isPrototypeOf", "propertyIsEnumerable",
   "toLocaleString", "toString", "valueOf", "__proto__",
   "__defineGetter__", "__defineSetter__", "__lookupGetter__", "__lookupSetter__"}

\* private data: Record<string, any> = {}
NewContext == [data |-> EmptyObject, proto |-> ObjectPrototype]

\* key in prototype: the properties of the prototype and of its own
\* prototype chain.
RECURSIVE inherits(_, _)
inherits(prototype, key) ==
  IF prototype.js = "null" THEN FALSE
  ELSE IF prototype.js = "Object.prototype" THEN key \in ObjectPrototypeNames
  ELSE key \in DOMAIN prototype.own \/ inherits(prototype.prototype, key)

\* An assignment to '__proto__' finds the setter of Object.prototype: the
\* chain reaches Object.prototype and no object before it has a property of
\* that name of its own.
RECURSIVE reachesSetter(_)
reachesSetter(prototype) ==
  IF prototype.js = "null" THEN FALSE
  ELSE IF prototype.js = "Object.prototype" THEN TRUE
  ELSE "__proto__" \notin DOMAIN prototype.own /\ reachesSetter(prototype.prototype)

\* this.data[key] = value.  The key '__proto__' goes to the inherited setter
\* when there is one: an object or null becomes the prototype, any other
\* value is ignored, and no own property is added.  Without the setter (the
\* prototype chain was cut, or the name is already an own property) the
\* assignment makes an own property like any other key.
HookContextSet(ctx, key, value) ==
  IF key = "__proto__" /\ "__proto__" \notin DOMAIN ctx.data /\ reachesSetter(ctx.proto)
  THEN IF value.js \in {"object", "Object.prototype", "null"}
       THEN [ctx EXCEPT !.proto = value]
       ELSE ctx
  ELSE [ctx EXCEPT !.data = SetKey(ctx.data, key, value)]

\* key in this.data: own and inherited properties.
HookContextHas(ctx, key) ==
  key \in DOMAIN ctx.data \/ inherits(ctx.proto, key)

\* delete this.data[key]: own properties only.
HookContextRemove(ctx, key) ==
  [ctx EXCEPT !.data = [k \in DOMAIN ctx.data \ {key} |-> ctx.data[k]]]

\* this.data = {}
HookContextClear(ctx) == NewContext

\* The argument that stands for the manager's HookContext instance.
ContextInstance == "HookContext"

\* The value that stands for the CLI's command object, the this of the
\* command-not-found hook (it has config, warn, log, debug and error).
CommandInstance == "Command"

(***************************************************************************)
(* HookTypes                                                               *)
(***************************************************************************)
COMMAND_NOT_FOUND == "command_not_found"
COMMAND_BEFORE == "command:before"
COMMAND_AFTER == "command:after"
ERROR_HOOK == "error"

(***************************************************************************)
(* The handler functions of the model.  What a handler does is a property  *)
(* of the function: it returns a value, throws synchronously, returns a    *)
(* promise that rejects with a non-Error, resolves only after some         *)
(* milliseconds of work (and then writes to the context it was given),     *)
(* never settles, or is the adapter the module registers on                *)
(* command_not_found, which starts a command-not-found run and settles     *)
(* with it.                                                                *)
(***************************************************************************)
Adapter == "commandNotFoundAdapter"

HandlerFns == {"ok", "thrower", "rejecter", "slow", "never", Adapter}

Behaviour(fn) ==
  CASE fn = "ok"       -> [kind |-> "return", ms |-> 0, value |-> "ok-value"]
    [] fn = "thrower"  -> [kind |-> "throw", ms |-> 0,
                           thrown |-> [isError |-> TRUE, message |-> "boom"]]
    [] fn = "rejecter" -> [kind |-> "reject", ms |-> 0,
                           thrown |-> [isError |-> FALSE, message |-> "nope"]]
    [] fn = "slow"     -> [kind |-> "return", ms |-> 2, value |-> "slow-value"]
    [] fn = "never"    -> [kind |-> "never", ms |-> 0]
    [] fn = Adapter    -> [kind |-> "adapter", ms |-> 0]

\* The key a slow handler writes when its work completes.
SlowKey == "slowDone"

(***************************************************************************)
(* HookManager.register                                                    *)
(***************************************************************************)
defaultOptions == [priority |-> 10, timeout |-> 30000]

\* Mutant: the comparator with its operands swapped (ascending order).
comparePriorityAscending(a, b) ==
  OrElse(a.options.priority, 0) - OrElse(b.options.priority, 0)

\* The comparator of hooks.sort: negative when a goes first.
comparePriority(a, b) ==
  OrElse(b.options.priority, 0) - OrElse(a.options.priority, 0)

\* Array.prototype.sort is stable: e goes after every element that does not
\* compare greater than it.
InsertSorted(s, e) ==
  LET after == {i \in 1..Len(s) : comparePriority(s[i], e) > 0}
      pos == IF after = {} THEN Len(s) + 1
             ELSE CHOOSE i \in after : \A j \in after : i <= j
  IN SubSeq(s, 1, pos - 1) \o <<e>> \o SubSeq(s, pos, Len(s))

RECURSIVE sortHooks(_)
sortHooks(s) ==
  IF s = <<>> THEN <<>>
  ELSE InsertSorted(sortHooks(SubSeq(s, 1, Len(s) - 1)), s[Len(s)])

\* register(name, fn, options): what the call does to the manager.  Every
\* call in flight on that chain sees the array change under its iterator.
register(name, fn, options) ==
  LET chain == IF name \in DOMAIN hooks THEN hooks[name] ELSE <<>>
      hookOptions == Spread(defaultOptions, options)
      pushed == Append(chain, [fn |-> fn, options |-> hookOptions, id |-> regCount + 1])
  IN /\ hooks' = SetKey(hooks, name, sortHooks(pushed))
     /\ regCount' = regCount + 1
     /\ calls' = [c \in 1..Len(calls) |->
                    IF calls[c].name = name THEN [calls[c] EXCEPT !.mutated = TRUE]
                    ELSE calls[c]]

(***************************************************************************)
(* Strings.  A string is a sequence of characters; split, join, startsWith *)
(* and the regular expression test are those of JavaScript.                *)
(***************************************************************************)
Colon == ":"

S_help == <<"h", "e", "l", "p">>
S_dashHelp == <<"-", "-", "h", "e", "l", "p">>
S_config_set == <<"c", "o", "n", "f", "i", "g", ":", "s", "e", "t">>
S_config_get == <<"c", "o", "n", "f", "i", "g", ":", "g", "e", "t">>
\* config:get typed with g breve, U+011F
S_config_get_breve == <<"c", "o", "n", "f", "i", "g", ":", "U+011F", "e", "t">>
S_confi_set == <<"c", "o", "n", "f", "i", ":", "s", "e", "t">>
S_confit_set_foo == <<"c", "o", "n", "f", "i", "t", ":", "s", "e", "t", ":", "f", "o", "o">>
S_help_foo == <<"h", "e", "l", "p", ":", "f", "o", "o">>
S_hel_foo == <<"h", "e", "l", ":", "f", "o", "o">>
S_foo_help == <<"f", "o", "o", ":", "h", "e", "l", "p">>
S_a_c == <<"a", ":", "c">>
S_a_B == <<"a", ":", "B">>
S_a_b == <<"a", ":", "b">>
S_flag == <<"-", "-", "f">>

\* s.split(':')
RECURSIVE splitFrom(_, _, _)
splitFrom(s, i, cur) ==
  IF i > Len(s) THEN <<cur>>
  ELSE IF s[i] = Colon THEN <<cur>> \o splitFrom(s, i + 1, <<>>)
  ELSE splitFrom(s, i + 1, Append(cur, s[i]))

split(s) == splitFrom(s, 1, <<>>)

\* parts.join(':')
RECURSIVE join(_)
join(parts) ==
  IF parts = <<>> THEN <<>>
  ELSE IF Len(parts) = 1 THEN parts[1]
  ELSE parts[1] \o <<Colon>> \o join(Tail(parts))

\* parts.filter(cmd => cmd !== 'help')
RECURSIVE withoutHelp(_)
withoutHelp(parts) ==
  IF parts = <<>> THEN <<>>
  ELSE IF parts[1] = S_help THEN withoutHelp(Tail(parts))
  ELSE <<parts[1]>> \o withoutHelp(Tail(parts))

\* The index slice counts from: a negative n counts from the end.
sliceIndex(arr, n) ==
  IF n < 0 THEN (IF Len(arr) + n < 0 THEN 0 ELSE Len(arr) + n)
  ELSE IF n > Len(arr) THEN Len(arr) ELSE n

\* arr.slice(n)
sliceFrom(arr, n) == SubSeq(arr, sliceIndex(arr, n) + 1, Len(arr))

startsWith(s, prefix) ==
  Len(s) >= Len(prefix) /\ SubSeq(s, 1, Len(prefix)) = prefix

\* (/:?help:?/).test(s): both colons are optional, so the test is for the
\* substring help.
helpPattern(s) ==
  \E i \in 1..Len(s) : i + 3 <= Len(s) /\ SubSeq(s, i, i + 3) = S_help


(***************************************************************************)
(* levenshtein.get(a, b, {useCollator: true}): the edit distance, with     *)
(* characters compared by Intl.Collator('generic', {sensitivity: 'base'}): *)
(* two characters are equal when they have the same primary weight in the  *)
(* root collation order, which the runtime falls back to for the unknown   *)
(* locale 'generic' under an English default locale.  Case, accents,       *)
(* strokes and the superscript or ordinal form of a character do not       *)
(* change its primary weight; ligatures and letters of their own (ae,      *)
(* sharp s, thorn, dotless i, micro) keep theirs.  Characters without a    *)
(* primary weight, the control characters and the soft hyphen, are equal   *)
(* to each other.                                                          *)
(*                                                                         *)
(* The alphabet of the model is U+0000..U+024F: Basic Latin, the Latin-1   *)
(* Supplement, Latin Extended-A and Latin Extended-B.  A string is a       *)
(* sequence of characters, one UTF-16 code unit each, as charAt reads      *)
(* them.  A printable ASCII character is written as itself, every other    *)
(* character by the name of its code point: "U+00E9" is the one character  *)
(* e with acute accent.                                                    *)
(***************************************************************************)

\* Each character that is not the representative of its class of equal
\* characters, with that representative: the lower-case ASCII letter of the
\* class, else its ASCII character, else its lowest code point.
Foldings ==
  <<<<"U+0001", "U+0000">>, <<"U+0002", "U+0000">>, <<"U+0003", "U+0000">>,
    <<"U+0004", "U+0000">>, <<"U+0005", "U+0000">>, <<"U+0006", "U+0000">>,
    <<"U+0007", "U+0000">>, <<"U+0008", "U+0000">>, <<"U+000E", "U+0000">>,
    <<"U+000F", "U+0000">>, <<"U+0010", "U+0000">>, <<"U+0011", "U+0000">>,
    <<"U+0012", "U+0000">>, <<"U+0013", "U+0000">>, <<"U+0014", "U+0000">>,
    <<"U+0015", "U+0000">>, <<"U+0016", "U+0000">>, <<"U+0017", "U+0000">>,
    <<"U+0018", "U+0000">>, <<"U+0019", "U+0000">>, <<"U+001A", "U+0000">>,
    <<"U+001B", "U+0000">>, <<"U+001C", "U+0000">>, <<"U+001D", "U+0000">>,
    <<"U+001E", "U+0000">>, <<"U+001F", "U+0000">>, <<"A", "a">>, <<"B", "b">>, <<"C", "c">>,
    <<"D", "d">>, <<"E", "e">>, <<"F", "f">>, <<"G", "g">>, <<"H", "h">>, <<"I", "i">>,
    <<"J", "j">>, <<"K", "k">>, <<"L", "l">>, <<"M", "m">>, <<"N", "n">>, <<"O", "o">>,
    <<"P", "p">>, <<"Q", "q">>, <<"R", "r">>, <<"S", "s">>, <<"T", "t">>, <<"U", "u">>,
    <<"V", "v">>, <<"W", "w">>, <<"X", "x">>, <<"Y", "y">>, <<"Z", "z">>, <<"U+007F", "U+0000">>,
    <<"U+0080", "U+0000">>, <<"U+0081", "U+0000">>, <<"U+0082", "U+0000">>,
    <<"U+0083", "U+0000">>, <<"U+0084", "U+0000">>, <<"U+0086", "U+0000">>,
    <<"U+0087", "U+0000">>, <<"U+0088", "U+0000">>, <<"U+0089", "U+0000">>,
    <<"U+008A", "U+0000">>, <<"U+008B", "U+0000">>, <<"U+008C", "U+0000">>,
    <<"U+008D", "U+0000">>, <<"U+008E", "U+0000">>, <<"U+008F", "U+0000">>,
    <<"U+0090", "U+0000">>, <<"U+0091", "U+0000">>, <<"U+0092", "U+0000">>,
    <<"U+0093", "U+0000">>, <<"U+0094", "U+0000">>, <<"U+0095", "U+0000">>,
    <<"U+0096", "U+0000">>, <<"U+0097", "U+0000">>, <<"U+0098", "U+0000">>,
    <<"U+0099", "U+0000">>, <<"U+009A", "U+0000">>, <<"U+009B", "U+0000">>,
    <<"U+009C", "U+0000">>, <<"U+009D", "U+0000">>, <<"U+009E", "U+0000">>,
    <<"U+009F", "U+0000">>, <<"U+00A0", " ">>, <<"U+00AA", "a">>, <<"U+00AD", "U+0000">>,
    <<"U+00B2", "2">>, <<"U+00B3", "3">>, <<"U+00B9", "1">>, <<"U+00BA", "o">>,
    <<"U+00C0", "a">>, <<"U+00C1", "a">>, <<"U+00C2", "a">>, <<"U+00C3", "a">>,
    <<"U+00C4", "a">>, <<"U+00C5", "a">>, <<"U+00C7", "c">>, <<"U+00C8", "e">>,
    <<"U+00C9", "e">>, <<"U+00CA", "e">>, <<"U+00CB", "e">>, <<"U+00CC", "i">>,
    <<"U+00CD", "i">>, <<"U+00CE", "i">>, <<"U+00CF", "i">>, <<"U+00D0", "d">>,
    <<"U+00D1", "n">>, <<"U+00D2", "o">>, <<"U+00D3", "o">>, <<"U+00D4", "o">>,
    <<"U+00D5", "o">>, <<"U+00D6", "o">>, <<"U+00D8", "o">>, <<"U+00D9", "u">>,
    <<"U+00DA", "u">>, <<"U+00DB", "u">>, <<"U+00DC", "u">>, <<"U+00DD", "y">>,
    <<"U+00E0", "a">>, <<"U+00E1", "a">>, <<"U+00E2", "a">>, <<"U+00E3", "a">>,
    <<"U+00E4", "a">>, <<"U+00E5", "a">>, <<"U+00E6", "U+00C6">>, <<"U+00E7", "c">>,
    <<"U+00E8", "e">>, <<"U+00E9", "e">>, <<"U+00EA", "e">>, <<"U+00EB", "e">>,
    <<"U+00EC", "i">>, <<"U+00ED", "i">>, <<"U+00EE", "i">>, <<"U+00EF", "i">>,
    <<"U+00F0", "d">>, <<"U+00F1", "n">>, <<"U+00F2", "o">>, <<"U+00F3", "o">>,
    <<"U+00F4", "o">>, <<"U+00F5", "o">>, <<"U+00F6", "o">>, <<"U+00F8", "o">>,
    <<"U+00F9", "u">>, <<"U+00FA", "u">>, <<"U+00FB", "u">>, <<"U+00FC", "u">>,
    <<"U+00FD", "y">>, <<"U+00FE", "U+00DE">>, <<"U+00FF", "y">>, <<"U+0100", "a">>,
    <<"U+0101", "a">>, <<"U+0102", "a">>, <<"U+0103", "a">>, <<"U+0104", "a">>,
    <<"U+0105", "a">>, <<"U+0106", "c">>, <<"U+0107", "c">>, <<"U+0108", "c">>,
    <<"U+0109", "c">>, <<"U+010A", "c">>, <<"U+010B", "c">>, <<"U+010C", "c">>,
    <<"U+010D", "c">>, <<"U+010E", "d">>, <<"U+010F", "d">>, <<"U+0110", "d">>,
    <<"U+0111", "d">>, <<"U+0112", "e">>, <<"U+0113", "e">>, <<"U+0114", "e">>,
    <<"U+0115", "e">>, <<"U+0116", "e">>, <<"U+0117", "e">>, <<"U+0118", "e">>,
    <<"U+0119", "e">>, <<"U+011A", "e">>, <<"U+011B", "e">>, <<"U+011C", "g">>,
    <<"U+011D", "g">>, <<"U+011E", "g">>, <<"U+011F", "g">>, <<"U+0120", "g">>,
    <<"U+0121", "g">>, <<"U+0122", "g">>, <<"U+0123", "g">>, <<"U+0124", "h">>,
    <<"U+0125", "h">>, <<"U+0126", "h">>, <<"U+0127", "h">>, <<"U+0128", "i">>,
    <<"U+0129", "i">>, <<"U+012A", "i">>, <<"U+012B", "i">>, <<"U+012C", "i">>,
    <<"U+012D", "i">>, <<"U+012E", "i">>, <<"U+012F", "i">>, <<"U+0130", "i">>,
    <<"U+0133", "U+0132">>, <<"U+0134", "j">>, <<"U+0135", "j">>, <<"U+0136", "k">>,
    <<"U+0137", "k">>, <<"U+0139", "l">>, <<"U+013A", "l">>, <<"U+013B", "l">>,
    <<"U+013C", "l">>, <<"U+013D", "l">>, <<"U+013E", "l">>, <<"U+013F", "l">>,
    <<"U+0140", "l">>, <<"U+0141", "l">>, <<"U+0142", "l">>, <<"U+0143", "n">>,
    <<"U+0144", "n">>, <<"U+0145", "n">>, <<"U+0146", "n">>, <<"U+0147", "n">>,
    <<"U+0148", "n">>, <<"U+014B", "U+014A">>, <<"U+014C", "o">>, <<"U+014D", "o">>,
    <<"U+014E", "o">>, <<"U+014F", "o">>, <<"U+0150", "o">>, <<"U+0151", "o">>,
    <<"U+0153", "U+0152">>, <<"U+0154", "r">>, <<"U+0155", "r">>, <<"U+0156", "r">>,
    <<"U+0157", "r">>, <<"U+0158", "r">>, <<"U+0159", "r">>, <<"U+015A", "s">>,
    <<"U+015B", "s">>, <<"U+015C", "s">>, <<"U+015D", "s">>, <<"U+015E", "s">>,
    <<"U+015F", "s">>, <<"U+0160", "s">>, <<"U+0161", "s">>, <<"U+0162", "t">>,
    <<"U+0163", "t">>, <<"U+0164", "t">>, <<"U+0165", "t">>, <<"U+0167", "U+0166">>,
    <<"U+0168", "u">>, <<"U+0169", "u">>, <<"U+016A", "u">>, <<"U+016B", "u">>,
    <<"U+016C", "u">>, <<"U+016D", "u">>, <<"U+016E", "u">>, <<"U+016F", "u">>,
    <<"U+0170", "u">>, <<"U+0171", "u">>, <<"U+0172", "u">>, <<"U+0173", "u">>,
    <<"U+0174", "w">>, <<"U+0175", "w">>, <<"U+0176", "y">>, <<"U+0177", "y">>,
    <<"U+0178", "y">>, <<"U+0179", "z">>, <<"U+017A", "z">>, <<"U+017B", "z">>,
    <<"U+017C", "z">>, <<"U+017D", "z">>, <<"U+017E", "z">>, <<"U+017F", "s">>,
    <<"U+0183", "U+0182">>, <<"U+0185", "U+0184">>, <<"U+0188", "U+0187">>,
    <<"U+018C", "U+018B">>, <<"U+0192", "U+0191">>, <<"U+0199", "U+0198">>, <<"U+01A0", "o">>,
    <<"U+01A1", "o">>, <<"U+01A3", "U+01A2">>, <<"U+01A5", "U+01A4">>, <<"U+01A8", "U+01A7">>,
    <<"U+01AD", "U+01AC">>, <<"U+01AF", "u">>, <<"U+01B0", "u">>, <<"U+01B4", "U+01B3">>,
    <<"U+01B6", "U+01B5">>, <<"U+01B9", "U+01B8">>, <<"U+01BD", "U+01BC">>,
    <<"U+01C5", "U+01C4">>, <<"U+01C6", "U+01C4">>, <<"U+01C8", "U+01C7">>,
    <<"U+01C9", "U+01C7">>, <<"U+01CB", "U+01CA">>, <<"U+01CC", "U+01CA">>, <<"U+01CD", "a">>,
    <<"U+01CE", "a">>, <<"U+01CF", "i">>, <<"U+01D0", "i">>, <<"U+01D1", "o">>,
    <<"U+01D2", "o">>, <<"U+01D3", "u">>, <<"U+01D4", "u">>, <<"U+01D5", "u">>,
    <<"U+01D6", "u">>, <<"U+01D7", "u">>, <<"U+01D8", "u">>, <<"U+01D9", "u">>,
    <<"U+01DA", "u">>, <<"U+01DB", "u">>, <<"U+01DC", "u">>, <<"U+01DD", "U+018E">>,
    <<"U+01DE", "a">>, <<"U+01DF", "a">>, <<"U+01E0", "a">>, <<"U+01E1", "a">>,
    <<"U+01E2", "U+00C6">>, <<"U+01E3", "U+00C6">>, <<"U+01E5", "U+01E4">>, <<"U+01E6", "g">>,
    <<"U+01E7", "g">>, <<"U+01E8", "k">>, <<"U+01E9", "k">>, <<"U+01EA", "o">>,
    <<"U+01EB", "o">>, <<"U+01EC", "o">>, <<"U+01ED", "o">>, <<"U+01EE", "U+01B7">>,
    <<"U+01EF", "U+01B7">>, <<"U+01F0", "j">>, <<"U+01F1", "U+01C4">>, <<"U+01F2", "U+01C4">>,
    <<"U+01F3", "U+01C4">>, <<"U+01F4", "g">>, <<"U+01F5", "g">>, <<"U+01F6", "U+0195">>,
    <<"U+01F7", "U+01BF">>, <<"U+01F8", "n">>, <<"U+01F9", "n">>, <<"U+01FA", "a">>,
    <<"U+01FB", "a">>, <<"U+01FC", "U+00C6">>, <<"U+01FD", "U+00C6">>, <<"U+01FE", "o">>,
    <<"U+01FF", "o">>, <<"U+0200", "a">>, <<"U+0201", "a">>, <<"U+0202", "a">>,
    <<"U+0203", "a">>, <<"U+0204", "e">>, <<"U+0205", "e">>, <<"U+0206", "e">>,
    <<"U+0207", "e">>, <<"U+0208", "i">>, <<"U+0209", "i">>, <<"U+020A", "i">>,
    <<"U+020B", "i">>, <<"U+020C", "o">>, <<"U+020D", "o">>, <<"U+020E", "o">>,
    <<"U+020F", "o">>, <<"U+0210", "r">>, <<"U+0211", "r">>, <<"U+0212", "r">>,
    <<"U+0213", "r">>, <<"U+0214", "u">>, <<"U+0215", "u">>, <<"U+0216", "u">>,
    <<"U+0217", "u">>, <<"U+0218", "s">>, <<"U+0219", "s">>, <<"U+021A", "t">>,
    <<"U+021B", "t">>, <<"U+021D", "U+021C">>, <<"U+021E", "h">>, <<"U+021F", "h">>,
    <<"U+0220", "U+019E">>, <<"U+0223", "U+0222">>, <<"U+0225", "U+0224">>, <<"U+0226", "a">>,
    <<"U+0227", "a">>, <<"U+0228", "e">>, <<"U+0229", "e">>, <<"U+022A", "o">>,
    <<"U+022B", "o">>, <<"U+022C", "o">>, <<"U+022D", "o">>, <<"U+022E", "o">>,
    <<"U+022F", "o">>, <<"U+0230", "o">>, <<"U+0231", "o">>, <<"U+0232", "y">>,
    <<"U+0233", "y">>, <<"U+023C", "U+023B">>, <<"U+023D", "U+019A">>, <<"U+0242", "U+0241">>,
    <<"U+0243", "U+0180">>, <<"U+0247", "U+0246">>, <<"U+0249", "U+0248">>,
    <<"U+024B", "U+024A">>, <<"U+024D", "U+024C">>, <<"U+024F", "U+024E">>>>

\* The characters that are not their own representative.
Folded == {Foldings[i][1] : i \in 1..Len(Foldings)}

\* Their representative.
baseOf ==
  [ch \in Folded |-> Foldings[CHOOSE i \in 1..Len(Foldings) : Foldings[i][1] = ch][2]]

\* The representative of a character of the model's alphabet.
collatorBase(ch) == IF ch \in Folded THEN baseOf[ch] ELSE ch

collatorEqual(x, y) == collatorBase(x) = collatorBase(y)

Min3(x, y, z) ==
  IF x <= y /\ x <= z THEN x ELSE IF y <= z THEN y ELSE z

\* One row of the dynamic programme: acc holds columns 0..j-1 of the row
\* for character ch of a, prev is the row before it.
RECURSIVE levRow(_, _, _, _)
levRow(prev, ch, b, acc) ==
  LET j == Len(acc)
  IN IF j > Len(b) THEN acc
     ELSE levRow(prev, ch, b,
                 Append(acc, Min3(prev[j + 1] + 1,
                                  acc[j] + 1,
                                  prev[j] + (IF collatorEqual(ch, b[j]) THEN 0 ELSE 1))))

RECURSIVE levRows(_, _, _, _)
levRows(a, b, i, prev) ==
  IF i > Len(a) \/ Len(prev) = 0 THEN prev[Len(b) + 1]
  ELSE levRows(a, b, i + 1, levRow(prev, a[i], b, <<i>>))

levenshtein(a, b) == levRows(a, b, 1, [j \in 1..(Len(b) + 1) |-> j - 1])

(***************************************************************************)
(* closest, getOrderedSuggestions, saveCommandHistory                      *)
(***************************************************************************)
\* .sort((a, b) => a.distance - b.distance), stable.
insertByDistance(s, e) ==
  LET after == {i \in 1..Len(s) : s[i].distance - e.distance > 0}
      pos == IF after = {} THEN Len(s) + 1
             ELSE CHOOSE i \in after : \A j \in after : i <= j
  IN SubSeq(s, 1, pos - 1) \o <<e>> \o SubSeq(s, pos, Len(s))

RECURSIVE sortByDistance(_)
sortByDistance(s) ==
  IF s = <<>> THEN <<>>
  ELSE insertByDistance(sortByDistance(SubSeq(s, 1, Len(s) - 1)), s[Len(s)])

ranked(target, possibilities) ==
  sortByDistance([i \in 1..Len(possibilities) |->
                    [distance |-> levenshtein(target, possibilities[i]),
                     id |-> possibilities[i]]])

\* ...[0]?.id ?? ''
closest(target, possibilities) ==
  LET r == ranked(target, possibilities)
  IN IF r = <<>> THEN <<>> ELSE r[1].id

\* .map(item => item.id)
RECURSIVE idsOf(_)
idsOf(items) ==
  IF items = <<>> THEN <<>> ELSE <<items[1].id>> \o idsOf(Tail(items))

\* arr.slice(0, n)
sliceTo(arr, n) == SubSeq(arr, 1, sliceIndex(arr, n))

getOrderedSuggestions(target, possibilities, limit) ==
  idsOf(sliceTo(ranked(target, possibilities), limit))

\* arr.filter(x => x !== e)
RECURSIVE without(_, _)
without(arr, e) ==
  IF arr = <<>> THEN <<>>
  ELSE IF arr[1] = e THEN without(Tail(arr), e)
  ELSE <<arr[1]>> \o without(Tail(arr), e)

\* The value of cfg.commandHistory after saveCommandHistory(cfg, command) at
\* time ts.
historyPushed(cfg, command, ts) ==
  Append(IF "commandHistory" \in DOMAIN cfg THEN cfg.commandHistory ELSE <<>>,
         [command |-> command, timestamp |-> ts])

\* Mutant: slice(0, 100), the oldest hundred entries are kept.
saveCommandHistoryOldest(cfg, command, ts) ==
  LET pushed == historyPushed(cfg, command, ts)
  IN SetKey(cfg, "commandHistory",
            IF Len(pushed) > 100 THEN SubSeq(pushed, 1, 100) ELSE pushed)

saveCommandHistory(cfg, command, ts) ==
  LET pushed == historyPushed(cfg, command, ts)
  IN SetKey(cfg, "commandHistory",
            IF Len(pushed) > 100 THEN sliceFrom(pushed, -100) ELSE pushed)

(***************************************************************************)
(* HookManager.execute.  The operators below take and give the part of the *)
(* state a synchronous stretch of code works on,                           *)
(* w = [context, calls, runs], so that a handler that itself runs code of  *)
(* this module (the adapter) does so within the turn that invokes it.      *)
(***************************************************************************)
world == [context |-> context, calls |-> calls, runs |-> runs]

become(w) ==
  /\ context' = w.context
  /\ calls' = w.calls
  /\ runs' = w.runs

\* error instanceof Error ? error : new Error(String(error))
toError(thrown) ==
  IF thrown.isError THEN thrown ELSE [isError |-> TRUE, message |-> thrown.message]

timeoutError(name, hook) ==
  [isError |-> TRUE, message |-> "timed out", hook |-> name, after |-> hook.options.timeout]

\* The delay of setTimeout(..., hook.options.timeout || 30000): a delay below
\* 1 or above 2147483647 is set to 1.
timerDelay(hook) ==
  LET delay == OrElse(hook.options.timeout, 30000)
  IN IF delay < 1 \/ delay > 2147483647 THEN 1 ELSE delay

succeeded(value) == [success |-> TRUE, value |-> value]

failed(error) == [success |-> FALSE, error |-> error]

\* The frame of a call that has just been made.
frame(caller, name, args) ==
  [pc |-> "running", name |-> name, args |-> args, idx |-> 0, hook |-> Undefined,
   results |-> <<>>, invoked |-> <<>>, mutated |-> FALSE, caller |-> caller,
   start |-> regCount]

setCall(w, c, f) == [w EXCEPT !.calls[c] = f]

setRun(w, r, run) == [w EXCEPT !.runs[r] = run]

step(name) == [step |-> name]

\* Mutant: the argument vector is not recorded.
recordInvocationNoArgv(ctx, o) ==
  HookContextSet(HookContextSet(ctx, "command", o.id), "config", Spread(o.config, config))

\* Mutant: every run starts from a cleared context.
recordInvocationCleared(ctx, o) ==
  HookContextSet(HookContextSet(HookContextSet(HookContextClear(ctx),
    "command", o.id), "argv", o.argv), "config", Spread(o.config, config))

\* context.set('command', ...); context.set('argv', ...); context.set('config', ...)
\* opts.config is the CLI's Config object: what the invocation says of it
\* (commands, commandIDs) and the commandHistory it has by now.
recordInvocation(ctx, o) ==
  HookContextSet(HookContextSet(HookContextSet(ctx,
    "command", o.id), "argv", o.argv), "config", Spread(o.config, config))

RECURSIVE loopFrom(_, _, _)
RECURSIVE loopFromConcurrent(_, _, _)
RECURSIVE loopFromUncaught(_, _, _)
RECURSIVE execute(_, _, _, _)
RECURSIVE commandNotFoundHook(_, _, _, _, _)

\* The frame after the handler at index i + 1 was called with the call's args.
calling(f, hook) == [f EXCEPT !.invoked = Append(f.invoked, [hook |-> hook, args |-> f.args])]

\* The call awaits the race of the handler it has just called; the adapter,
\* called with (this, opts), has started its run in the same turn (without
\* opts the hook throws a TypeError on opts.id before it does anything).
awaiting(w, c, f, i, hook) ==
  LET raced == setCall(w, c, [calling(f, hook) EXCEPT !.pc = "await", !.idx = i + 1,
                                                      !.hook = hook])
  IN IF Behaviour(hook.fn).kind = "adapter" /\ Len(f.args) >= 2
     THEN commandNotFoundHook(raced, c, i + 1, f.args[1], f.args[2])
     ELSE raced

\* Mutant: the race is not awaited, every handler is started in the same turn
\* and only the last one is waited for.
loopFromConcurrent(w, c, i) ==
  LET f == w.calls[c]
      chain == hooks[f.name]
  IN IF i >= Len(chain)
     THEN setCall(w, c, [f EXCEPT !.pc = "returned", !.idx = i, !.hook = Undefined])
     ELSE LET hook == chain[i + 1]
              b == Behaviour(hook.fn)
          IN IF b.kind = "throw"
             THEN loopFromConcurrent(
                    setCall(w, c, [calling(f, hook) EXCEPT
                                     !.results = Append(f.results, failed(toError(b.thrown)))]),
                    c, i + 1)
             ELSE IF i + 1 < Len(chain)
             THEN loopFromConcurrent(setCall(w, c, calling(f, hook)), c, i + 1)
             ELSE awaiting(w, c, f, i, hook)

\* Mutant: no try/catch around the call, a synchronous throw ends the loop
\* and rejects the promise execute returned.
loopFromUncaught(w, c, i) ==
  LET f == w.calls[c]
      chain == hooks[f.name]
  IN IF i >= Len(chain)
     THEN setCall(w, c, [f EXCEPT !.pc = "returned", !.idx = i, !.hook = Undefined])
     ELSE LET hook == chain[i + 1]
              b == Behaviour(hook.fn)
          IN IF b.kind = "throw"
             THEN setCall(w, c, [calling(f, hook) EXCEPT !.pc = "rejected", !.idx = i + 1,
                                                         !.hook = Undefined])
             ELSE awaiting(w, c, f, i, hook)

\* The for-of loop of call c from iterator index i up to its next await: a
\* handler that throws synchronously is caught and the loop goes on in the
\* same turn; any other handler is raced against its timer and awaited.
loopFrom(w, c, i) ==
  LET f == w.calls[c]
      chain == hooks[f.name]
  IN IF i >= Len(chain)
     THEN setCall(w, c, [f EXCEPT !.pc = "returned", !.idx = i, !.hook = Undefined])
     ELSE LET hook == chain[i + 1]
              b == Behaviour(hook.fn)
          IN IF b.kind = "throw"
             THEN loopFrom(setCall(w, c, [calling(f, hook) EXCEPT
                                            !.results = Append(f.results,
                                                               failed(toError(b.thrown)))]),
                           c, i + 1)
             ELSE awaiting(w, c, f, i, hook)

\* execute(name, ...args): a new call, run up to its first await.
execute(w, caller, name, args) ==
  LET c == Len(w.calls) + 1
      f == frame(caller, name, args)
  IN IF name \notin DOMAIN hooks
     THEN [w EXCEPT !.calls = Append(w.calls, [f EXCEPT !.pc = "returned"])]
     ELSE loopFrom([w EXCEPT !.calls = Append(w.calls, f)], c, 0)

executeWithContext(w, caller, name, args) ==
  execute(w, caller, name, <<ContextInstance>> \o args)

\* Run r makes its next executeWithContext call and awaits it.
runExecutes(w, r, run, name, args) ==
  executeWithContext(setRun(w, r, [run EXCEPT !.call = Len(w.calls) + 1]), r, name, args)

\* commandNotFoundHook.call(self, opts) up to its first await: the invocation
\* is recorded and the COMMAND_BEFORE hooks are fired.  via and viaIdx name
\* the call and chain position of the adapter that awaits the run (0 when
\* the CLI called the hook itself); promise is the state of the promise the
\* async function returned.
commandNotFoundHook(w, via, viaIdx, self, o) ==
  LET r == Len(w.runs) + 1
      run == [pc |-> "commandBefore", self |-> self, opts |-> o, suggestion |-> <<>>,
              alternativeSuggestions |-> <<>>, argv |-> <<>>,
              events |-> <<step("set:command"), step("set:argv"), step("set:config"),
                           [step |-> "execute", name |-> COMMAND_BEFORE]>>,
              via |-> via, viaIdx |-> viaIdx, call |-> 0, promise |-> "pending"]
  IN runExecutes([w EXCEPT !.context = recordInvocation(w.context, o),
                           !.runs = Append(w.runs, run)],
                 r, run, COMMAND_BEFORE, <<o>>)

\* The handler's promise can settle while the timer is still pending.
settlesFirst(hook) == Behaviour(hook.fn).kind \in {"return", "reject"}

\* The timer can fire while the handler's promise is still pending.  A
\* promise that is settled when the race starts always wins: its reaction
\* runs before any timer.  Work that takes time ends in a later turn of the
\* event loop, and which of the two callbacks runs first is decided in real
\* time: a timer whose delay is the shorter one usually fires first but may
\* run late, and a timer whose delay is the longer one fires first when the
\* thread is kept busy past its delay.  Either may come first.
timesOutFirst(hook) ==
  LET b == Behaviour(hook.fn)
  IN \/ b.kind = "never"
     \/ b.kind \in {"return", "reject"} /\ b.ms > 0

\* The ways a run ends: the four terminal states, and the rejection of a run
\* whose this is not the CLI's command (this.config is undefined, this.warn
\* is not a function).
Terminal == {"Helped", "Empty", "Resolved", "Fatal", "Rejected"}

\* The runs the adapter started at the position call c is awaiting.
adapterRuns(c) ==
  {r \in 1..Len(runs) : runs[r].via = c /\ runs[r].viaIdx = calls[c].idx}

\* The promise of the handler call c awaits can settle with its timer still
\* pending.  The adapter's promise is the one of its run (rejected at once,
\* with a TypeError, when it was called without opts).
settled(c) ==
  IF Behaviour(calls[c].hook.fn).kind = "adapter"
  THEN \A r \in adapterRuns(c) : runs[r].promise # "pending"
  ELSE settlesFirst(calls[c].hook)

\* The timer of call c can fire with the handler's promise still pending.
expired(c) ==
  IF Behaviour(calls[c].hook.fn).kind = "adapter"
  THEN \E r \in adapterRuns(c) : runs[r].promise = "pending"
  ELSE timesOutFirst(calls[c].hook)

\* The error config.runCommand rejects with when the command fails.
runCommandError == [isError |-> TRUE, message |-> "command failed"]

\* What the settled promise gives.
raceOutcome(c) ==
  LET b == Behaviour(calls[c].hook.fn)
  IN IF b.kind = "return" THEN succeeded(b.value)
     ELSE IF b.kind = "reject" THEN failed(toError(b.thrown))
     ELSE IF adapterRuns(c) = {}
     THEN failed([isError |-> TRUE, message |-> "TypeError"])
     ELSE LET r == CHOOSE r \in adapterRuns(c) : TRUE
          IN IF runs[r].pc = "Fatal"
             THEN failed([isError |-> TRUE, message |-> "exit", code |-> 127])
             ELSE IF runs[r].pc = "Rejected"
             THEN failed([isError |-> TRUE, message |-> "TypeError"])
             ELSE IF runs[r].pc = "Resolved"
             THEN (IF runs[r].promise = "fulfilled" THEN succeeded("runCommand")
                   ELSE failed(runCommandError))
             ELSE succeeded("undefined")

\* What a handler's work does when it completes.
workDone(ctx, work) ==
  IF work.hook.fn = "slow" /\ work.args # <<>> /\ work.args[1] = ContextInstance
  THEN HookContextSet(ctx, SlowKey, work.hook.id)
  ELSE ctx

\* The work started by one call of a handler.
workOf(c) ==
  [call |-> c, idx |-> calls[c].idx, hook |-> calls[c].hook, args |-> calls[c].args]

\* The timer setTimeout armed for one call of a handler.
timerOf(c) ==
  [call |-> c, idx |-> calls[c].idx, name |-> calls[c].name, hook |-> calls[c].hook]

\* The frame with one more result.
resulted(f, result) == [f EXCEPT !.results = Append(f.results, result)]

\* The handler's promise wins the race; its timer stays armed.
executeSettle(c) ==
  /\ calls[c].pc = "await"
  /\ settled(c)
  /\ become(loopFrom(setCall([world EXCEPT !.context = workDone(context, workOf(c))],
                             c, resulted(calls[c], raceOutcome(c))),
                     c, calls[c].idx))
  /\ timers' = timers \cup {timerOf(c)}
  /\ UNCHANGED pending
  /\ UNCHANGED hookVars
  /\ UNCHANGED histVars
  /\ UNCHANGED loaderVars

\* The timer wins the race; the handler's work is not cancelled.
executeTimeout(c) ==
  /\ calls[c].pc = "await"
  /\ expired(c)
  /\ become(loopFrom(setCall(world, c,
                             resulted(calls[c],
                                      failed(timeoutError(calls[c].name, calls[c].hook)))),
                     c, calls[c].idx))
  /\ pending' = IF Behaviour(calls[c].hook.fn).kind \in {"return", "reject"}
                THEN pending \cup {workOf(c)}
                ELSE pending
  /\ UNCHANGED timers
  /\ UNCHANGED hookVars
  /\ UNCHANGED histVars
  /\ UNCHANGED loaderVars

\* Mutant: the late completion reports its value as one more result.
lateCompletionReports(work) ==
  /\ work \in pending
  /\ pending' = pending \ {work}
  /\ context' = workDone(context, work)
  /\ calls' = [calls EXCEPT ![work.call] =
                 resulted(calls[work.call], succeeded(Behaviour(work.hook.fn).value))]
  /\ UNCHANGED <<timers, runs>>
  /\ UNCHANGED hookVars
  /\ UNCHANGED histVars
  /\ UNCHANGED loaderVars

\* The work of a handler that timed out completes later.
lateCompletion(work) ==
  /\ work \in pending
  /\ pending' = pending \ {work}
  /\ context' = workDone(context, work)
  /\ UNCHANGED <<calls, timers, runs>>
  /\ UNCHANGED hookVars
  /\ UNCHANGED histVars
  /\ UNCHANGED loaderVars

\* Mutant: a timer that fires late reports its timeout as one more result.
lateTimerReports(timer) ==
  /\ timer \in timers
  /\ timers' = timers \ {timer}
  /\ calls' = [calls EXCEPT ![timer.call] =
                 resulted(calls[timer.call], failed(timeoutError(timer.name, timer.hook)))]
  /\ UNCHANGED <<context, pending, runs>>
  /\ UNCHANGED hookVars
  /\ UNCHANGED histVars
  /\ UNCHANGED loaderVars

\* A timer fires after its handler has settled: the race is already decided,
\* the rejection has no effect.
lateTimer(timer) ==
  /\ timer \in timers
  /\ timers' = timers \ {timer}
  /\ UNCHANGED <<context, calls, pending, runs>>
  /\ UNCHANGED hookVars
  /\ UNCHANGED histVars
  /\ UNCHANGED loaderVars

(***************************************************************************)
(* The hook files of <cwd>/hooks.  The constructor starts an import for    *)
(* every .js or .ts file of the directory; each import settles in a turn   *)
(* of its own, after the module has loaded.                                *)
(***************************************************************************)
request(name, fn, options) == [name |-> name, fn |-> fn, options |-> options]

\* A file base.ext whose module exports a register function (which makes
\* the registration given), a default function, or neither, or fails to
\* load.
hookFile(base, ext, exports, registration) ==
  [base |-> base, ext |-> ext, exports |-> exports, registration |-> registration]

HooksDirectory ==
  { hookFile("error", "js", "default", request("error", "ok", EmptyObject)),
    hookFile("viaRegister", "js", "register",
             request(COMMAND_BEFORE, "ok", [priority |-> 99])),
    hookFile("broken", "ts", "fails", request("broken", "ok", EmptyObject)),
    hookFile("README", "md", "default", request("README", "ok", EmptyObject)) }

\* file.endsWith('.js') || file.endsWith('.ts')
isHookFile(file) == file.ext \in {"js", "ts"}

\* What a register call leaves alone.
registerFrame ==
  /\ UNCHANGED <<context, pending, timers, runs>>
  /\ UNCHANGED histVars
  /\ UNCHANGED loaderVars

\* The .then / .catch of import(path.join(hooksDir, file)).
hookFileImported(file) ==
  /\ isHookFile(file)
  /\ file \notin hookImports
  /\ hookImports' = hookImports \cup {file}
  /\ IF file.exports = "register"
     THEN register(file.registration.name, file.registration.fn, file.registration.options)
     ELSE IF file.exports = "default"
     THEN register(file.base, file.registration.fn, EmptyObject)
     ELSE UNCHANGED <<hooks, regCount, calls>>
  /\ UNCHANGED contextCalls
  /\ registerFrame

(***************************************************************************)
(* commandNotFoundHook.  Each action is the code of one run between two    *)
(* awaits; a run awaits executeWithContext (an execute call above), the    *)
(* two confirm prompts, and finally hands over to config.runCommand or     *)
(* this.error.                                                             *)
(***************************************************************************)
\* The answers of confirm: true, false, the cancel symbol, or a rejection.
Responses == {"true", "false", "cancel", "throw"}

\* config.commands.flatMap((c) => c.aliases)
RECURSIVE allAliases(_)
allAliases(commands) ==
  IF commands = <<>> THEN <<>>
  ELSE commands[1].aliases \o allAliases(Tail(commands))

RECURSIVE notHidden(_, _)
notHidden(ids, hidden) ==
  IF ids = <<>> THEN <<>>
  ELSE IF ids[1] \in hidden THEN notHidden(Tail(ids), hidden)
  ELSE <<ids[1]>> \o notHidden(Tail(ids), hidden)

\* The local variable commandIDs.
visibleCommandIDs(cli) ==
  LET hiddenCommandIds ==
        {cli.commands[i].id : i \in {j \in 1..Len(cli.commands) : cli.commands[j].hidden}}
  IN notHidden(cli.commandIDs \o allAliases(cli.commands), hiddenCommandIds)

primarySuggestion(id, commandIDs) ==
  IF helpPattern(id)
  THEN join(<<S_help>> \o withoutHelp(split(id)))
  ELSE closest(id, commandIDs)

\* Mutant: the primary suggestion is not filtered out of the alternatives.
alternativesOfUnfiltered(id, commandIDs, primary) ==
  getOrderedSuggestions(id, commandIDs, 3)

alternativesOf(id, commandIDs, primary) ==
  without(getOrderedSuggestions(id, commandIDs, 3), primary)

\* Mutant: the argument vector is always the original argv.
primaryResolutionNoSlice(o, primary) ==
  IF startsWith(primary, S_help \o <<Colon>>)
  THEN [command |-> S_help, argv |-> sliceFrom(split(primary), 1)]
  ELSE [command |-> primary, argv |-> o.argv]

\* The command and argument vector the confirmed primary suggestion runs.
primaryResolution(o, primary) ==
  LET argv0 == IF Len(o.argv) > 0 THEN o.argv
               ELSE sliceFrom(split(o.id), Len(split(primary)))
  IN IF startsWith(primary, S_help \o <<Colon>>)
     THEN [command |-> S_help, argv |-> sliceFrom(split(primary), 1)]
     ELSE [command |-> primary, argv |-> argv0]

notFoundError(id) == [isError |-> TRUE, message |-> "Command not found", id |-> id]

\* The CLI called the hook (the module's default export) with opts.
cnfStart(o) ==
  /\ become(commandNotFoundHook(world, 0, 0, CommandInstance, o))
  /\ UNCHANGED <<pending, timers>>
  /\ UNCHANGED hookVars
  /\ UNCHANGED histVars
  /\ UNCHANGED loaderVars

\* The Config object the context holds under 'config' is the one
\* saveCommandHistory writes to: the stored value shows its new history.
historySeen(ctx, cfg) ==
  IF "config" \in DOMAIN ctx.data
  THEN HookContextSet(ctx, "config", Spread(ctx.data["config"], cfg))
  ELSE ctx

\* Mutant: the error hooks are fired without the error being stored.
cnfFailUnrecorded(w, r, log) ==
  LET run == w.runs[r]
  IN runExecutes(w, r,
                 [run EXCEPT !.events = Append(log, [step |-> "execute", name |-> ERROR_HOOK]),
                             !.pc = "errorHooks"],
                 ERROR_HOOK, <<run.opts>>)

\* The failure path: store the error, fire the error hooks.
cnfFail(w, r, log) ==
  LET run == w.runs[r]
  IN runExecutes([w EXCEPT !.context = HookContextSet(w.context, "error",
                                                      notFoundError(run.opts.id))],
                 r,
                 [run EXCEPT !.events = log \o <<step("set:error"),
                                                 [step |-> "execute", name |-> ERROR_HOOK]>>,
                             !.pc = "errorHooks"],
                 ERROR_HOOK, <<run.opts>>)

\* After COMMAND_BEFORE: help, no candidates, or suggestions and the first
\* prompt.  A run whose this is not the command throws where it first uses
\* this (new Help(this.config), this.warn).
cnfSuggest(r) ==
  /\ runs[r].pc = "commandBefore"
  /\ calls[runs[r].call].pc = "returned"
  /\ LET run == runs[r]
         log == Append(run.events, [step |-> "executed", name |-> COMMAND_BEFORE])
         commandIDs == visibleCommandIDs(run.opts.config)
         primary == primarySuggestion(run.opts.id, commandIDs)
     IN IF run.opts.id = S_dashHelp
        THEN /\ runs' = [runs EXCEPT ![r] =
                  IF run.self = CommandInstance
                  THEN [run EXCEPT !.events = Append(log, step("showHelp")), !.pc = "Helped",
                                   !.promise = "fulfilled"]
                  ELSE [run EXCEPT !.events = log, !.pc = "Rejected",
                                   !.promise = "rejected"]]
             /\ UNCHANGED <<context, config, appended>>
        ELSE IF Len(commandIDs) = 0
        THEN /\ runs' = [runs EXCEPT ![r] = [run EXCEPT !.events = log, !.pc = "Empty",
                                                         !.promise = "fulfilled"]]
             /\ UNCHANGED <<context, config, appended>>
        ELSE IF run.self # CommandInstance
        THEN /\ runs' = [runs EXCEPT ![r] = [run EXCEPT !.events = log, !.pc = "Rejected",
                                                         !.promise = "rejected"]]
             /\ UNCHANGED <<context, config, appended>>
        ELSE /\ runs' = [runs EXCEPT ![r] =
                  [run EXCEPT !.suggestion = primary,
                              !.alternativeSuggestions =
                                 alternativesOf(run.opts.id, commandIDs, primary),
                              !.events = log \o <<step("suggest"), step("saveCommandHistory"),
                                                  [step |-> "confirm", prompt |-> "primary",
                                                   suggestion |-> primary]>>,
                              !.pc = "primaryPrompt"]]
             /\ config' = saveCommandHistory(config, run.opts.id, now)
             /\ appended' = Append(appended, [command |-> run.opts.id, timestamp |-> now])
             /\ context' = historySeen(context, config')
  /\ UNCHANGED <<calls, pending, timers, now>>
  /\ UNCHANGED hookVars
  /\ UNCHANGED loaderVars

answered(prompt, response) ==
  [step |-> "answer", prompt |-> prompt, response |-> response]

\* Mutant: every confirmed primary suggestion is run at once, as for id 'help'.
confirmedPrimaryAtOnce(w, r, log) ==
  LET run == w.runs[r]
      res == primaryResolution(run.opts, run.suggestion)
  IN setRun(w, r, [run EXCEPT
       !.argv = res.argv,
       !.suggestion = res.command,
       !.events = Append(log, [step |-> "runCommand",
                               command |-> IF run.opts.id = S_help THEN S_dashHelp
                                           ELSE res.command,
                               args |-> IF run.opts.id = S_help THEN <<>> ELSE <<res.argv>>]),
       !.pc = "Resolved"])

\* if (response === true) { ... }
confirmedPrimary(w, r, log) ==
  LET run == w.runs[r]
      res == primaryResolution(run.opts, run.suggestion)
      resolved == [run EXCEPT !.argv = res.argv, !.suggestion = res.command]
  IN IF run.opts.id = S_help
     THEN setRun(w, r, [resolved EXCEPT
            !.events = Append(log, [step |-> "runCommand", command |-> S_dashHelp,
                                    args |-> <<>>]),
            !.pc = "Resolved"])
     ELSE runExecutes([w EXCEPT !.context = HookContextSet(HookContextSet(w.context,
                                    "suggestedCommand", res.command), "suggestedArgv", res.argv)],
                      r,
                      [resolved EXCEPT
                         !.events = log \o <<step("set:suggestedCommand"),
                                             step("set:suggestedArgv"),
                                             [step |-> "execute", name |-> COMMAND_AFTER]>>,
                         !.pc = "commandAfter"],
                      COMMAND_AFTER, <<run.opts, res.command, res.argv>>)

\* if (altResponse === true) { ... }
confirmedAlternative(w, r, log) ==
  LET run == w.runs[r]
  IN runExecutes([w EXCEPT !.context = HookContextSet(HookContextSet(w.context,
                                 "suggestedCommand", run.alternativeSuggestions[1]),
                                 "suggestedArgv", run.opts.argv)],
                 r,
                 [run EXCEPT
                    !.events = log \o <<step("set:suggestedCommand"), step("set:suggestedArgv"),
                                        [step |-> "execute", name |-> COMMAND_AFTER]>>,
                    !.pc = "commandAfterAlternative"],
                 COMMAND_AFTER, <<run.opts, run.alternativeSuggestions[1], run.opts.argv>>)

\* The primary prompt is answered (a rejection is caught and counts as no answer).
cnfPrimaryAnswered(r, response) ==
  /\ runs[r].pc = "primaryPrompt"
  /\ LET run == runs[r]
         log == Append(run.events, answered("primary", response))
     IN IF response = "true"
        THEN become(confirmedPrimary(world, r, log))
        ELSE IF Len(run.alternativeSuggestions) > 0
        THEN become(setRun(world, r,
               [run EXCEPT !.events = Append(log, [step |-> "confirm",
                                                   prompt |-> "alternative",
                                                   suggestion |-> run.alternativeSuggestions[1]]),
                           !.pc = "alternativePrompt"]))
        ELSE become(cnfFail(world, r, log))
  /\ UNCHANGED <<pending, timers>>
  /\ UNCHANGED hookVars
  /\ UNCHANGED histVars
  /\ UNCHANGED loaderVars

\* The alternative prompt is answered.
cnfAlternativeAnswered(r, response) ==
  /\ runs[r].pc = "alternativePrompt"
  /\ LET log == Append(runs[r].events, answered("alternative", response))
     IN IF response = "true"
        THEN become(confirmedAlternative(world, r, log))
        ELSE become(cnfFail(world, r, log))
  /\ UNCHANGED <<pending, timers>>
  /\ UNCHANGED hookVars
  /\ UNCHANGED histVars
  /\ UNCHANGED loaderVars

\* A run moves on without touching anything but its own frame.
runBecomes(r, run) ==
  /\ runs' = [runs EXCEPT ![r] = run]
  /\ UNCHANGED <<context, calls, pending, timers>>
  /\ UNCHANGED hookVars
  /\ UNCHANGED histVars
  /\ UNCHANGED loaderVars

\* After COMMAND_AFTER: hand over to config.runCommand.
cnfRunCommand(r) ==
  /\ runs[r].pc = "commandAfter"
  /\ calls[runs[r].call].pc = "returned"
  /\ runBecomes(r, [runs[r] EXCEPT
       !.events = runs[r].events \o <<[step |-> "executed", name |-> COMMAND_AFTER],
                                      [step |-> "runCommand", command |-> runs[r].suggestion,
                                       args |-> <<runs[r].argv>>]>>,
       !.pc = "Resolved"])

\* After COMMAND_AFTER on the alternative path.
cnfRunAlternative(r) ==
  /\ runs[r].pc = "commandAfterAlternative"
  /\ calls[runs[r].call].pc = "returned"
  /\ runBecomes(r, [runs[r] EXCEPT
       !.events = runs[r].events \o <<[step |-> "executed", name |-> COMMAND_AFTER],
                                      [step |-> "runCommand",
                                       command |-> runs[r].alternativeSuggestions[1],
                                       args |-> <<runs[r].opts.argv>>]>>,
       !.pc = "Resolved"])

\* The promise config.runCommand returned, which is the one the run gave
\* its caller, settles: the command has run, or has failed.
runCommandSettled(r, outcome) ==
  /\ runs[r].pc = "Resolved"
  /\ runs[r].promise = "pending"
  /\ runBecomes(r, [runs[r] EXCEPT !.promise = outcome])

\* Other code calls hookManager.getContext().set(key, value).
contextSet(key, value) ==
  /\ context' = HookContextSet(context, key, value)
  /\ contextCalls' = contextCalls + 1
  /\ UNCHANGED <<calls, pending, timers, runs>>
  /\ UNCHANGED <<hooks, regCount, hookImports>>
  /\ UNCHANGED histVars
  /\ UNCHANGED loaderVars

\* Other code calls hookManager.getContext().remove(key).
contextRemove(key) ==
  /\ context' = HookContextRemove(context, key)
  /\ contextCalls' = contextCalls + 1
  /\ UNCHANGED <<calls, pending, timers, runs>>
  /\ UNCHANGED <<hooks, regCount, hookImports>>
  /\ UNCHANGED histVars
  /\ UNCHANGED loaderVars

\* Other code calls hookManager.getContext().clear().
contextClear ==
  /\ context' = HookContextClear(context)
  /\ contextCalls' = contextCalls + 1
  /\ UNCHANGED <<calls, pending, timers, runs>>
  /\ UNCHANGED <<hooks, regCount, hookImports>>
  /\ UNCHANGED histVars
  /\ UNCHANGED loaderVars

\* After the error hooks: this.error(..., {exit: 127}).
cnfExit(r) ==
  /\ runs[r].pc = "errorHooks"
  /\ calls[runs[r].call].pc = "returned"
  /\ runBecomes(r, [runs[r] EXCEPT
       !.events = runs[r].events \o <<[step |-> "executed", name |-> ERROR_HOOK],
                                      [step |-> "exit", code |-> 127]>>,
       !.pc = "Fatal", !.promise = "rejected"])

(***************************************************************************)
(* Initial state: the module is loaded, the manager holds the adapter of   *)
(* the command-not-found handler and an empty context; the imports of the  *)
(* hook files have been started and none has settled.                      *)
(***************************************************************************)
Init ==
  /\ hooks = SetKey(EmptyObject, COMMAND_NOT_FOUND,
                    <<[fn |-> Adapter, options |-> defaultOptions, id |-> 1]>>)
  /\ context = NewContext
  /\ regCount = 1
  /\ hookImports = {}
  /\ contextCalls = 0
  /\ calls = <<>>
  /\ pending = {}
  /\ timers = {}
  /\ runs = <<>>
  /\ config = EmptyObject
  /\ appended = <<>>
  /\ now = 0
  /\ registry = <<>>
  /\ registered = <<>>
  /\ loadPc = "idle"
  /\ loadDisk = Undefined
  /\ loadIdx = 0
  /\ initPlugins = <<>>
  /\ loadLog = <<>>


(***************************************************************************)
(* pluginRegistry: a keyed store of plugins (registerPlugin, getPlugin,    *)
(* getAllPlugins).  A plugin is {name, register, initialize?}; initialize  *)
(* is "none" when the plugin has none, else what calling it does.          *)
(***************************************************************************)
plugin(name, initialize) == [name |-> name, initialize |-> initialize]

\* Mutant: every registration adds an entry.
registerPluginAppends(reg, p) == Append(reg, p)

\* registerPlugin(plugin): insert, or overwrite the entry of that name.
registerPlugin(reg, p) ==
  IF \E i \in 1..Len(reg) : reg[i].name = p.name
  THEN [i \in 1..Len(reg) |-> IF reg[i].name = p.name THEN p ELSE reg[i]]
  ELSE Append(reg, p)

\* getPlugin(name): the plugins of that name, none or one.
RECURSIVE getPlugin(_, _)
getPlugin(reg, name) ==
  IF reg = <<>> THEN <<>>
  ELSE IF reg[1].name = name THEN <<reg[1]>>
  ELSE getPlugin(Tail(reg), name)

\* getAllPlugins(): a snapshot, in registration order.
getAllPlugins(reg) == reg

(***************************************************************************)
(* What loadPlugins finds on disk.  Names and specifiers are strings, as   *)
(* sequences of characters.                                                *)
(***************************************************************************)
MODULE_PREFIX ==
  <<"a", "s", "y", "n", "c", "a", "p", "i", "-", "c", "l", "i", "-",
    "p", "l", "u", "g", "i", "n", "-">>

Slash == "/"

N_foo == <<"f", "o", "o">>
N_bar == <<"b", "a", "r">>
N_baz == <<"b", "a", "z">>
N_core == <<"c", "o", "r", "e">>
N_docs == <<"d", "o", "c", "s">>
N_bad == <<"b", "a", "d">>
N_odd == <<"o", "d", "d">>
N_readme == <<"R", "E", "A", "D", "M", "E">>
N_lodash == <<"l", "o", "d", "a", "s", "h">>
N_local == <<".", "/", "l", "o", "c", "a", "l">>
N_abs == <<"/", "o", "p", "t", "/", "p">>

BuiltInPluginsDir == <<"/", "c", "l", "i", "/", "b", "i">>
NodeModulesPath == <<"/", "c", "w", "d", "/", "n", "m">>
ConfigDir == <<"/", "c", "w", "d">>

\* p.split('/')
RECURSIVE segmentsFrom(_, _, _)
segmentsFrom(p, i, cur) ==
  IF i > Len(p) THEN <<cur>>
  ELSE IF p[i] = Slash THEN <<cur>> \o segmentsFrom(p, i + 1, <<>>)
  ELSE segmentsFrom(p, i + 1, Append(cur, p[i]))

\* The segments of a path with '', '.' and '..' resolved (at the root '..'
\* stays at the root).
RECURSIVE resolved(_, _)
resolved(segments, acc) ==
  IF segments = <<>> THEN acc
  ELSE IF segments[1] = <<>> \/ segments[1] = <<".">> THEN resolved(Tail(segments), acc)
  ELSE IF segments[1] = <<".", ".">>
  THEN resolved(Tail(segments), SubSeq(acc, 1, Len(acc) - 1))
  ELSE resolved(Tail(segments), Append(acc, segments[1]))

RECURSIVE absolute(_)
absolute(segments) ==
  IF segments = <<>> THEN <<>>
  ELSE <<Slash>> \o segments[1] \o absolute(Tail(segments))

\* The normal form of an absolute path: no empty, '.' or '..' segment and no
\* trailing slash.
normalize(p) ==
  LET segments == resolved(segmentsFrom(p, 1, <<>>), <<>>)
  IN IF segments = <<>> THEN <<Slash>> ELSE absolute(segments)

\* path.join(dir, name) for an absolute dir
pathJoin(dir, name) == normalize(dir \o <<Slash>> \o name)

\* path.resolve(dir, name) for an absolute dir
pathResolve(dir, name) ==
  IF startsWith(name, <<Slash>>) THEN normalize(name)
  ELSE normalize(dir \o <<Slash>> \o name)

\* What import(specifier) settles with: a rejection, or a module whose
\* default export is absent, an object without a register function, or a
\* plugin.
importFails == [outcome |-> "throws", default |-> plugin(<<>>, "none")]
moduleWithoutDefault == [outcome |-> "noDefault", default |-> plugin(<<>>, "none")]
moduleWithoutRegister(name) == [outcome |-> "noRegister", default |-> plugin(name, "none")]
moduleOf(p) == [outcome |-> "plugin", default |-> p]

installed(specifier, module) == [specifier |-> specifier, module |-> module]

\* A package of node_modules is found under its path and under its name.
package(name, module) ==
  <<installed(pathJoin(NodeModulesPath, name), module), installed(name, module)>>

\* The modules there are to import; any other specifier fails to resolve.
Modules ==
  <<installed(pathJoin(BuiltInPluginsDir, N_core), moduleOf(plugin(N_core, "ok"))),
    installed(pathJoin(BuiltInPluginsDir, N_docs), moduleOf(plugin(N_docs, "throws"))),
    installed(pathJoin(BuiltInPluginsDir, N_odd), moduleWithoutRegister(N_odd)),
    installed(pathJoin(BuiltInPluginsDir, N_foo), moduleOf(plugin(N_foo, "none"))),
    installed(pathResolve(ConfigDir, N_local), moduleOf(plugin(N_core, "rejects"))),
    installed(N_abs, moduleWithoutDefault)>>
  \o package(MODULE_PREFIX \o N_foo, moduleOf(plugin(MODULE_PREFIX \o N_foo, "rejects")))
  \o package(MODULE_PREFIX \o N_bar, moduleOf(plugin(N_bar, "ok")))
  \o package(MODULE_PREFIX \o N_odd, moduleWithoutRegister(N_odd))
  \o package(N_lodash, moduleOf(plugin(N_lodash, "ok")))

RECURSIVE lookup(_, _)
lookup(table, specifier) ==
  IF table = <<>> THEN importFails
  ELSE IF table[1].specifier = specifier THEN table[1].module
  ELSE lookup(Tail(table), specifier)

\* await import(specifier)
importModule(specifier) == lookup(Modules, specifier)

\* plugin && typeof plugin.register === 'function'
validPlugin(module) == module.outcome = "plugin"

dirent(name, isDirectory) == [name |-> name, isDirectory |-> isDirectory]

listing(entries) == [readable |-> TRUE, entries |-> entries]

unreadable == [readable |-> FALSE, entries |-> <<>>]

\* The built-in plugins directory as readdir may find it.
BuiltInListings ==
  { unreadable,
    listing(<<>>),
    listing(<<dirent(N_bad, TRUE), dirent(N_readme, FALSE), dirent(N_core, TRUE),
              dirent(N_odd, TRUE), dirent(N_docs, TRUE)>>),
    listing(<<dirent(N_foo, TRUE)>>) }

\* node_modules as readdir may find it.
NodeModulesListings ==
  { unreadable,
    listing(<<dirent(N_lodash, TRUE)>>),
    listing(<<dirent(MODULE_PREFIX \o N_bad, TRUE), dirent(N_lodash, TRUE),
              dirent(MODULE_PREFIX \o N_foo, TRUE), dirent(MODULE_PREFIX \o N_odd, TRUE),
              dirent(MODULE_PREFIX \o N_bar, TRUE)>>) }

\* The value of an entry of the plugins mapping: { enabled: ... }, or null
\* or undefined where the document gives the key no value.
pluginConfig(enabled) == [js |-> "object", enabled |-> enabled]

nullish(value) == value.js \in {"null", "undefined"}

\* One entry [pluginName, config] of Object.entries(pluginsConfig).
declared(pluginName, value) == [pluginName |-> pluginName, config |-> value]

on(pluginName) == declared(pluginName, pluginConfig(TRUE))

off(pluginName) == declared(pluginName, pluginConfig(FALSE))

searchResult(outcome, plugins) == [outcome |-> outcome, plugins |-> plugins]

\* What explorer.search() settles with: a rejection, null, a document without
\* plugins, or a document with a plugins mapping (in key order).
SearchResults ==
  { searchResult("throws", <<>>),
    searchResult("null", <<>>),
    searchResult("noPlugins", <<>>),
    searchResult("plugins", <<on(N_foo), off(N_baz), on(N_local), on(MODULE_PREFIX \o N_bar)>>),
    searchResult("plugins", <<on(N_abs), on(N_bad), on(N_bar), on(MODULE_PREFIX \o N_foo),
                              on(N_odd)>>),
    searchResult("plugins", <<on(N_foo), declared(N_baz, Null), on(N_bar)>>),
    searchResult("plugins", <<declared(N_foo, Undefined), on(N_bar)>>) }

(***************************************************************************)
(* loadPlugins.  Each action is the code between two awaits: a readdir, an *)
(* import, the configuration search, or a plugin's initialize.  The loops  *)
(* below run from a position up to their next await and give the state     *)
(* there: [pc, idx, registry, registered, initPlugins, log].               *)
(***************************************************************************)
phaseStarts(phase) == [step |-> "phase", phase |-> phase]

phaseFails(phase) == [step |-> "phaseFailed", phase |-> phase]

imports(phase, specifier) == [step |-> "import", phase |-> phase, specifier |-> specifier]

skips(phase, name, why) == [step |-> "skipped", phase |-> phase, name |-> name, why |-> why]

registers(phase, name) == [step |-> "registerPlugin", phase |-> phase, name |-> name]

initializes(name) == [step |-> "initialize", name |-> name]

initialized(name, outcome) == [step |-> "initialized", name |-> name, outcome |-> outcome]

\* The state of the call: st with some of its fields replaced.
at(st, pc, idx, log) ==
  [pc |-> pc, idx |-> idx, registry |-> st.registry, registered |-> st.registered,
   initPlugins |-> st.initPlugins, log |-> log]

\* Mutant: a plugin whose initialize throws ends the loop.
RECURSIVE initLoopAborts(_, _)
initLoopAborts(st, i) ==
  IF i >= Len(st.initPlugins)
  THEN at(st, "initializeReturned", i, st.log)
  ELSE LET p == st.initPlugins[i + 1]
       IN IF p.initialize = "none" THEN initLoopAborts(st, i + 1)
          ELSE IF p.initialize = "throws"
          THEN at(st, "initializeReturned", i + 1,
                  st.log \o <<initializes(p.name), initialized(p.name, "failed")>>)
          ELSE at(st, "initializing", i + 1, Append(st.log, initializes(p.name)))

\* initializePlugins: the loop over the snapshot from index i; an initialize
\* that throws at once is caught in the same turn.  When the loop is over the
\* function returns; loadPlugins goes on in a later turn.
RECURSIVE initLoop(_, _)
initLoop(st, i) ==
  IF i >= Len(st.initPlugins)
  THEN at(st, "initializeReturned", i, st.log)
  ELSE LET p == st.initPlugins[i + 1]
       IN IF p.initialize = "none" THEN initLoop(st, i + 1)
          ELSE IF p.initialize = "throws"
          THEN initLoop([st EXCEPT !.log = st.log \o <<initializes(p.name),
                                                       initialized(p.name, "failed")>>],
                        i + 1)
          ELSE at(st, "initializing", i + 1, Append(st.log, initializes(p.name)))

\* Phase 4 begins: the snapshot is taken.
initializePlugins(st) ==
  initLoop([st EXCEPT !.initPlugins = getAllPlugins(st.registry),
                      !.log = Append(st.log, phaseStarts("initialize"))], 0)

\* Phase 3 begins: await explorer.search().
loadUserConfigPlugins(st) ==
  at(st, "searchConfig", 0, Append(st.log, phaseStarts("userConfig")))

\* Phase 2 begins: await fs.readdir(nodeModulesPath).
loadNodeModulesPlugins(st) ==
  at(st, "readNodeModules", 0, Append(st.log, phaseStarts("nodeModules")))

\* loadPluginsFromDirectory: the loop over the entries from index i.
RECURSIVE builtInLoop(_, _, _)
builtInLoop(st, entries, i) ==
  IF i >= Len(entries) THEN at(st, "builtInReturned", i, st.log)
  ELSE IF ~entries[i + 1].isDirectory THEN builtInLoop(st, entries, i + 1)
  ELSE at(st, "importBuiltIn", i + 1,
          Append(st.log, imports("builtIn", pathJoin(BuiltInPluginsDir, entries[i + 1].name))))

\* entries.filter(entry => entry.isDirectory() && entry.name.startsWith(MODULE_PREFIX))
RECURSIVE pluginModulesOf(_)
pluginModulesOf(entries) ==
  IF entries = <<>> THEN <<>>
  ELSE IF entries[1].isDirectory /\ startsWith(entries[1].name, MODULE_PREFIX)
  THEN <<entries[1]>> \o pluginModulesOf(Tail(entries))
  ELSE pluginModulesOf(Tail(entries))

\* loadNodeModulesPlugins: the loop over pluginModules from index i.
nodeModulesLoop(st, pluginModules, i) ==
  IF i >= Len(pluginModules) THEN at(st, "nodeModulesReturned", i, st.log)
  ELSE at(st, "importNodeModules", i + 1,
          Append(st.log, imports("nodeModules",
                                 pathJoin(NodeModulesPath, pluginModules[i + 1].name))))

isPath(pluginName) ==
  startsWith(pluginName, <<".", Slash>>) \/ startsWith(pluginName, <<Slash>>)

\* pluginName.startsWith(MODULE_PREFIX) ? pluginName : `${MODULE_PREFIX}${pluginName}`
resolvedName(pluginName) ==
  IF startsWith(pluginName, MODULE_PREFIX) THEN pluginName ELSE MODULE_PREFIX \o pluginName

\* The specifier the entry's import is given.
specifierOf(pluginName) ==
  IF isPath(pluginName) THEN pathResolve(ConfigDir, pluginName) ELSE resolvedName(pluginName)

\* loadUserConfigPlugins: the loop over Object.entries(pluginsConfig) from
\* index i.  config.enabled throws on an entry whose value is null or
\* undefined: the catch of the function ends the phase there.
RECURSIVE userConfigLoop(_, _, _)
userConfigLoop(st, entries, i) ==
  IF i >= Len(entries) THEN at(st, "userConfigReturned", i, st.log)
  ELSE LET e == entries[i + 1]
       IN IF nullish(e.config)
          THEN at(st, "userConfigReturned", i + 1, Append(st.log, phaseFails("userConfig")))
          ELSE IF ~e.config.enabled
          THEN userConfigLoop([st EXCEPT !.log = Append(st.log,
                                 skips("userConfig", e.pluginName, "disabled"))], entries, i + 1)
          ELSE IF ~isPath(e.pluginName) /\ getPlugin(st.registry, e.pluginName) # <<>>
          THEN userConfigLoop([st EXCEPT !.log = Append(st.log,
                                 skips("userConfig", e.pluginName, "registered"))], entries, i + 1)
          ELSE at(st, "importUserConfig", i + 1,
                  Append(st.log, imports("userConfig", specifierOf(e.pluginName))))

\* The import of a candidate has settled: the candidate is registered when
\* its module's default export has a register function, skipped otherwise.
imported(st, phase, specifier) ==
  LET module == importModule(specifier)
  IN IF module.outcome = "throws"
     THEN [st EXCEPT !.log = Append(st.log, skips(phase, specifier, "failed"))]
     ELSE IF validPlugin(module)
     THEN [st EXCEPT !.registry = registerPlugin(st.registry, module.default),
                     !.registered = Append(st.registered, module.default),
                     !.log = Append(st.log, registers(phase, module.default.name))]
     ELSE [st EXCEPT !.log = Append(st.log, skips(phase, specifier, "invalid"))]

\* The catch of loadNodeModulesPlugins: the listing could not be read.
\* Mutant: the error is thrown on to loadPlugins, whose catch ends the call.
nodeModulesUnreadableAborts(st) ==
  at(st, "done", 0, Append(st.log, phaseFails("nodeModules")))

nodeModulesUnreadable(st) ==
  at(st, "nodeModulesReturned", 0, Append(st.log, phaseFails("nodeModules")))

\* The state of the call in flight.
loading ==
  [pc |-> loadPc, idx |-> loadIdx, registry |-> registry, registered |-> registered,
   initPlugins |-> initPlugins, log |-> loadLog]

loadGoTo(next) ==
  /\ loadPc' = next.pc
  /\ loadIdx' = next.idx
  /\ registry' = next.registry
  /\ registered' = next.registered
  /\ initPlugins' = next.initPlugins
  /\ loadLog' = next.log

\* The loader leaves the hook manager and the command-not-found runs alone.
loaderFrame ==
  /\ UNCHANGED <<context, calls, pending, timers, runs>>
  /\ UNCHANGED hookVars
  /\ UNCHANGED histVars

\* loadPlugins() is called: phase 1 begins with await fs.readdir(dir).
loadPlugins(disk) ==
  /\ loadDisk' = disk
  /\ loadGoTo(at(loading, "readBuiltIn", 0, <<phaseStarts("builtIn")>>))
  /\ loaderFrame

\* readdir of the built-in directory has settled.
builtInRead ==
  /\ loadPc = "readBuiltIn"
  /\ IF ~loadDisk.builtIn.readable
     THEN loadGoTo(at(loading, "builtInReturned", 0,
                      Append(loadLog, phaseFails("builtIn"))))
     ELSE loadGoTo(builtInLoop(loading, loadDisk.builtIn.entries, 0))
  /\ UNCHANGED loadDisk
  /\ loaderFrame

\* The import of a built-in candidate has settled.
builtInImported ==
  /\ loadPc = "importBuiltIn"
  /\ LET entries == loadDisk.builtIn.entries
         specifier == pathJoin(BuiltInPluginsDir, entries[loadIdx].name)
     IN loadGoTo(builtInLoop(imported(loading, "builtIn", specifier), entries, loadIdx))
  /\ UNCHANGED loadDisk
  /\ loaderFrame

\* readdir of node_modules has settled.
nodeModulesRead ==
  /\ loadPc = "readNodeModules"
  /\ IF ~loadDisk.nodeModules.readable
     THEN loadGoTo(nodeModulesUnreadable(loading))
     ELSE loadGoTo(nodeModulesLoop(loading, pluginModulesOf(loadDisk.nodeModules.entries), 0))
  /\ UNCHANGED loadDisk
  /\ loaderFrame

\* The import of a node_modules candidate has settled.
nodeModulesImported ==
  /\ loadPc = "importNodeModules"
  /\ LET pluginModules == pluginModulesOf(loadDisk.nodeModules.entries)
         specifier == pathJoin(NodeModulesPath, pluginModules[loadIdx].name)
     IN loadGoTo(nodeModulesLoop(imported(loading, "nodeModules", specifier),
                                 pluginModules, loadIdx))
  /\ UNCHANGED loadDisk
  /\ loaderFrame

\* explorer.search() has settled.
configSearched ==
  /\ loadPc = "searchConfig"
  /\ LET result == loadDisk.search
     IN IF result.outcome = "throws"
        THEN loadGoTo(at(loading, "userConfigReturned", 0,
                         Append(loadLog, phaseFails("userConfig"))))
        ELSE IF result.outcome = "plugins"
        THEN loadGoTo(userConfigLoop(loading, result.plugins, 0))
        ELSE loadGoTo(at(loading, "userConfigReturned", 0, loadLog))
  /\ UNCHANGED loadDisk
  /\ loaderFrame

\* The import of a user-declared plugin has settled.
userConfigImported ==
  /\ loadPc = "importUserConfig"
  /\ LET entries == loadDisk.search.plugins
         specifier == specifierOf(entries[loadIdx].pluginName)
     IN loadGoTo(userConfigLoop(imported(loading, "userConfig", specifier), entries, loadIdx))
  /\ UNCHANGED loadDisk
  /\ loaderFrame

\* The promise of a plugin's initialize has settled.
pluginInitialized ==
  /\ loadPc = "initializing"
  /\ LET p == initPlugins[loadIdx]
         outcome == IF p.initialize = "ok" THEN "ok" ELSE "failed"
     IN loadGoTo(initLoop([loading EXCEPT !.log = Append(loadLog, initialized(p.name, outcome))],
                          loadIdx))
  /\ UNCHANGED loadDisk
  /\ loaderFrame

\* await loadBuiltInPlugins() has returned: phase 2 begins.
builtInReturned ==
  /\ loadPc = "builtInReturned"
  /\ loadGoTo(loadNodeModulesPlugins(loading))
  /\ UNCHANGED loadDisk
  /\ loaderFrame

\* await loadNodeModulesPlugins() has returned: phase 3 begins.
nodeModulesReturned ==
  /\ loadPc = "nodeModulesReturned"
  /\ loadGoTo(loadUserConfigPlugins(loading))
  /\ UNCHANGED loadDisk
  /\ loaderFrame

\* await loadUserConfigPlugins() has returned: phase 4 begins.
userConfigReturned ==
  /\ loadPc = "userConfigReturned"
  /\ loadGoTo(initializePlugins(loading))
  /\ UNCHANGED loadDisk
  /\ loaderFrame

\* await initializePlugins() has returned: the count is logged.
initializeReturned ==
  /\ loadPc = "initializeReturned"
  /\ loadGoTo(at(loading, "done", loadIdx,
                 Append(loadLog, [step |-> "loaded",
                                  count |-> Len(getAllPlugins(registry))])))
  /\ UNCHANGED loadDisk
  /\ loaderFrame

\* Any other code of the process registers a plugin.
registerPluginCall(p) ==
  /\ registry' = registerPlugin(registry, p)
  /\ registered' = Append(registered, p)
  /\ UNCHANGED <<loadPc, loadDisk, loadIdx, initPlugins, loadLog>>
  /\ loaderFrame


(***************************************************************************)
(* The turns of the event loop that belong to some call or run.            *)
(***************************************************************************)
ExecuteSettle == \E c \in 1..Len(calls) : executeSettle(c)

ExecuteTimeout == \E c \in 1..Len(calls) : executeTimeout(c)

LateCompletion == \E work \in pending : lateCompletion(work)

LateTimer == \E timer \in timers : lateTimer(timer)

HookFileImported == \E file \in HooksDirectory : hookFileImported(file)

CnfSuggest == \E r \in 1..Len(runs) : cnfSuggest(r)

CnfPrimaryAnswered ==
  \E r \in 1..Len(runs) : \E response \in Responses : cnfPrimaryAnswered(r, response)

CnfAlternativeAnswered ==
  \E r \in 1..Len(runs) : \E response \in Responses : cnfAlternativeAnswered(r, response)

CnfRunCommand == \E r \in 1..Len(runs) : cnfRunCommand(r)

CnfRunAlternative == \E r \in 1..Len(runs) : cnfRunAlternative(r)

CnfExit == \E r \in 1..Len(runs) : cnfExit(r)

\* The two ways the promise of config.runCommand settles.
RunCommandOutcomes == {"fulfilled", "rejected"}

RunCommandSettled ==
  \E r \in 1..Len(runs) : \E outcome \in RunCommandOutcomes : runCommandSettled(r, outcome)

\* What an execute call by the user leaves alone.
executeFrame ==
  /\ UNCHANGED <<pending, timers>>
  /\ UNCHANGED hookVars
  /\ UNCHANGED histVars
  /\ UNCHANGED loaderVars

\* The calls made by the user (not by a command-not-found run).
userCalls == {c \in 1..Len(calls) : calls[c].caller = 0}

(***************************************************************************)
(* The hook manager on its own: callers register handlers and run chains,  *)
(* also while earlier calls are in flight.                                 *)
(***************************************************************************)
MaxRegs == 3

MaxCalls == 1

HookRequests ==
  { request(COMMAND_BEFORE, "ok", [priority |-> 5]),
    request(COMMAND_BEFORE, "ok", [priority |-> 20]),
    request(COMMAND_BEFORE, "thrower", EmptyObject),
    request(COMMAND_BEFORE, "rejecter", [priority |-> 5, timeout |-> -1]),
    request(COMMAND_BEFORE, "never", [priority |-> 20, timeout |-> 1]) }

ExecuteNames == {COMMAND_BEFORE, ERROR_HOOK}

\* Request r was made before: its handler is in the chain with its options.
requested(r) ==
  /\ r.name \in DOMAIN hooks
  /\ \E i \in 1..Len(hooks[r.name]) :
       /\ hooks[r.name][i].fn = r.fn
       /\ hooks[r.name][i].options = Spread(defaultOptions, r.options)

\* Callers register handlers, each request at most once.
Register ==
  \E r \in HookRequests :
    /\ regCount < 1 + MaxRegs
    /\ ~requested(r)
    /\ register(r.name, r.fn, r.options)
    /\ UNCHANGED <<hookImports, contextCalls>>
    /\ registerFrame

\* The chains callers run; command_not_found holds the adapter, which is
\* given no opts here.
Execute ==
  \E name \in ExecuteNames \cup {COMMAND_NOT_FOUND} :
    /\ Cardinality(userCalls) < MaxCalls
    /\ become(execute(world, 0, name, <<"payload">>))
    /\ executeFrame

ExecuteWithContext ==
  \E name \in ExecuteNames :
    /\ Cardinality(userCalls) < MaxCalls
    /\ become(executeWithContext(world, 0, name, <<"payload">>))
    /\ executeFrame

NextHooks ==
  \/ Register
  \/ Execute
  \/ ExecuteWithContext
  \/ ExecuteSettle
  \/ ExecuteTimeout

SpecHooks == Init /\ [][NextHooks]_vars

(***************************************************************************)
(* The hook manager with handlers that take time: a handler may lose the   *)
(* race against its timer and complete later.                              *)
(***************************************************************************)
TimedRequests ==
  { request(COMMAND_BEFORE, "ok", [priority |-> 5]),
    request(COMMAND_BEFORE, "slow", [timeout |-> 1]),
    request(COMMAND_BEFORE, "slow", [timeout |-> 0]),
    request(COMMAND_BEFORE, "never", [priority |-> 20, timeout |-> 1]) }

\* The number of timed handlers registered.
MaxTimedRegs == 2

RegisterTimed ==
  \E r \in TimedRequests :
    /\ regCount < 1 + MaxTimedRegs
    /\ ~requested(r)
    /\ register(r.name, r.fn, r.options)
    /\ UNCHANGED <<hookImports, contextCalls>>
    /\ registerFrame

NextTimeouts ==
  \/ RegisterTimed
  \/ Execute
  \/ ExecuteWithContext
  \/ ExecuteSettle
  \/ ExecuteTimeout
  \/ LateCompletion

SpecTimeouts == Init /\ [][NextTimeouts]_vars

(***************************************************************************)
(* One command-not-found run, called by the CLI, with handlers on its      *)
(* three hooks.                                                            *)
(***************************************************************************)
MaxCnfRegs == 2

CnfRequests ==
  { request(COMMAND_BEFORE, "thrower", EmptyObject),
    request(COMMAND_BEFORE, "slow", [timeout |-> 1]),
    request(COMMAND_AFTER, "ok", EmptyObject),
    request(ERROR_HOOK, "never", [timeout |-> 1]) }

command(id, hidden, aliases) == [id |-> id, hidden |-> hidden, aliases |-> aliases]

\* The CLI configurations a run may see.
CliExample ==
  [commandIDs |-> <<S_config_set, S_config_get, S_help>>,
   commands |-> <<command(S_config_set, FALSE, <<>>), command(S_config_get, FALSE, <<>>),
                  command(S_help, FALSE, <<>>)>>]

CliHidden ==
  [commandIDs |-> <<S_config_set>>,
   commands |-> <<command(S_config_set, TRUE, <<>>)>>]

CliTopics ==
  [commandIDs |-> <<S_help_foo, S_a_c>>,
   commands |-> <<command(S_help_foo, FALSE, <<>>), command(S_a_c, FALSE, <<S_a_B>>)>>]

invocation(id, a, cli) == [id |-> id, argv |-> a, config |-> cli]

\* The invocations {id, argv, config} the outer CLI may make.
Invocations ==
  { invocation(S_dashHelp, <<>>, CliExample),
    invocation(S_help, <<>>, CliTopics),
    invocation(S_confi_set, <<>>, CliExample),
    invocation(S_confit_set_foo, <<>>, CliExample),
    invocation(S_config_get_breve, <<>>, CliExample),
    invocation(S_foo_help, <<S_flag>>, CliExample),
    invocation(S_confi_set, <<>>, CliHidden),
    invocation(S_hel_foo, <<>>, CliTopics),
    invocation(S_a_b, <<S_flag>>, CliTopics) }

\* Handlers are registered, each request at most once.
RegisterCnf ==
  \E r \in CnfRequests :
    /\ regCount < 1 + MaxCnfRegs
    /\ ~requested(r)
    /\ register(r.name, r.fn, r.options)
    /\ UNCHANGED <<hookImports, contextCalls>>
    /\ registerFrame

\* The one run of the process.
CnfStart ==
  \E o \in Invocations :
    /\ runs = <<>>
    /\ cnfStart(o)

\* The one run of the process, started by running the command_not_found
\* chain with (this, opts).
AdapterInvocations ==
  { invocation(S_dashHelp, <<>>, CliExample),
    invocation(S_confi_set, <<>>, CliExample) }

CnfStartViaAdapter ==
  \E o \in AdapterInvocations :
    /\ runs = <<>>
    /\ calls = <<>>
    /\ become(execute(world, 0, COMMAND_NOT_FOUND, <<CommandInstance, o>>))
    /\ executeFrame

NextCnf ==
  \/ RegisterCnf
  \/ CnfStart
  \/ CnfStartViaAdapter
  \/ CnfSuggest
  \/ CnfPrimaryAnswered
  \/ CnfAlternativeAnswered
  \/ CnfRunCommand
  \/ CnfRunAlternative
  \/ CnfExit
  \/ RunCommandSettled
  \/ ExecuteSettle
  \/ ExecuteTimeout
  \/ LateCompletion
  \/ LateTimer

SpecCnf == Init /\ [][NextCnf]_vars

(***************************************************************************)
(* saveCommandHistory on its own, called again and again on one config,    *)
(* while the wall clock stands still, goes on or is set back.              *)
(***************************************************************************)
MaxAppends == 150

VariedAppends == 2

MaxClock == 2

HistoryCommands == {S_confi_set, S_hel_foo}

SaveCommandHistory ==
  \E cmd \in HistoryCommands :
    /\ Len(appended) < MaxAppends
    /\ (Len(appended) < VariedAppends \/ cmd = S_confi_set)
    /\ config' = saveCommandHistory(config, cmd, now)
    /\ appended' = Append(appended, [command |-> cmd, timestamp |-> now])
    /\ context' = historySeen(context, config')
    /\ UNCHANGED <<now, calls, pending, timers, runs>>
    /\ UNCHANGED hookVars
    /\ UNCHANGED loaderVars

\* Time passes, or the clock is adjusted.
ClockMoves ==
  \E t \in 0..MaxClock :
    /\ Len(appended) < VariedAppends
    /\ t # now
    /\ now' = t
    /\ UNCHANGED <<context, calls, pending, timers, runs, config, appended>>
    /\ UNCHANGED hookVars
    /\ UNCHANGED loaderVars

NextHistory ==
  \/ SaveCommandHistory
  \/ ClockMoves

SpecHistory == Init /\ [][NextHistory]_vars

(***************************************************************************)
(* One execute call under fair scheduling: a handler that settles does     *)
(* settle, and an armed timer fires.  The hook files of <cwd>/hooks come   *)
(* in meanwhile.                                                           *)
(***************************************************************************)
MaxTerminationRegs == 2

TerminationRequests ==
  { request(COMMAND_BEFORE, "thrower", EmptyObject),
    request(COMMAND_BEFORE, "slow", [timeout |-> 1]),
    request(COMMAND_BEFORE, "never", [priority |-> 20, timeout |-> 1]) }

\* The registrations callers made (not the module itself, not the hook files).
callerRegistrations ==
  regCount - 1 - Cardinality({file \in hookImports : file.exports \in {"register", "default"}})

RegisterForTermination ==
  \E r \in TerminationRequests :
    /\ callerRegistrations < MaxTerminationRegs
    /\ ~requested(r)
    /\ register(r.name, r.fn, r.options)
    /\ UNCHANGED <<hookImports, contextCalls>>
    /\ registerFrame

ExecuteOnce ==
  \E name \in ExecuteNames :
    /\ calls = <<>>
    /\ become(executeWithContext(world, 0, name, <<"payload">>))
    /\ executeFrame

NextTermination ==
  \/ RegisterForTermination
  \/ HookFileImported
  \/ ExecuteOnce
  \/ ExecuteSettle
  \/ ExecuteTimeout
  \/ LateCompletion
  \/ LateTimer

SpecTermination ==
  /\ Init
  /\ [][NextTermination]_vars
  /\ WF_vars(ExecuteSettle)
  /\ WF_vars(ExecuteTimeout)

(***************************************************************************)
(* Several command-not-found runs in one process, one after the other,     *)
(* called by the CLI or through the adapter on the command_not_found       *)
(* chain, sharing the context and the Config.                              *)
(***************************************************************************)
MaxRuns == 2

RunRequests ==
  { request(COMMAND_BEFORE, "ok", EmptyObject),
    request(ERROR_HOOK, "ok", EmptyObject) }

RunInvocations ==
  { invocation(S_dashHelp, <<>>, CliExample),
    invocation(S_confi_set, <<>>, CliExample) }

RunResponses == {"true", "false"}

\* No run is in flight: the promise of every run has settled.
betweenRuns == \A r \in 1..Len(runs) : runs[r].promise # "pending"

\* Handlers are registered before the first run, each request at most once.
RegisterForRuns ==
  \E r \in RunRequests :
    /\ runs = <<>>
    /\ ~requested(r)
    /\ register(r.name, r.fn, r.options)
    /\ UNCHANGED <<hookImports, contextCalls>>
    /\ registerFrame

\* One more run may start: the earlier ones have ended.
mayRun ==
  /\ Len(runs) < MaxRuns
  /\ betweenRuns

\* The CLI calls the hook.
CnfRun ==
  \E o \in RunInvocations :
    /\ mayRun
    /\ cnfStart(o)

\* The command_not_found chain is run with (this, opts), as testHook does.
CnfViaAdapter ==
  /\ mayRun
  /\ become(execute(world, 0, COMMAND_NOT_FOUND,
                    <<CommandInstance, invocation(S_dashHelp, <<>>, CliExample)>>))
  /\ executeFrame

\* The chain is run with the context in the place of this.
CnfViaContext ==
  /\ mayRun
  /\ become(executeWithContext(world, 0, COMMAND_NOT_FOUND,
                               <<invocation(S_confi_set, <<>>, CliExample)>>))
  /\ executeFrame

\* Calls by other code on the context the manager hands out: at most
\* MaxContextCalls, each after a run has ended.
MaxContextCalls == 1

ContextWrites ==
  { <<"__proto__", Null>>, <<"__proto__", Primitive(5)>>,
    <<"__proto__", ObjectCreate(ObjectPrototype, [a |-> 1])>> }

ContextKeys == {"command"}

mayCallContext ==
  /\ contextCalls < MaxContextCalls
  /\ runs # <<>>
  /\ betweenRuns

ContextSet ==
  \E write \in ContextWrites :
    /\ mayCallContext
    /\ contextSet(write[1], write[2])

ContextRemove ==
  \E key \in ContextKeys :
    /\ mayCallContext
    /\ contextRemove(key)

ContextClear ==
  /\ mayCallContext
  /\ contextClear

RunPrimaryAnswered ==
  \E r \in 1..Len(runs) : \E response \in RunResponses : cnfPrimaryAnswered(r, response)

RunAlternativeAnswered ==
  \E r \in 1..Len(runs) : \E response \in RunResponses : cnfAlternativeAnswered(r, response)

NextRuns ==
  \/ RegisterForRuns
  \/ CnfRun
  \/ CnfViaAdapter
  \/ CnfViaContext
  \/ CnfSuggest
  \/ RunPrimaryAnswered
  \/ RunAlternativeAnswered
  \/ CnfRunCommand
  \/ CnfRunAlternative
  \/ CnfExit
  \/ RunCommandSettled
  \/ ExecuteSettle
  \/ ExecuteTimeout
  \/ ContextSet
  \/ ContextRemove
  \/ ContextClear

SpecRuns == Init /\ [][NextRuns]_vars

(***************************************************************************)
(* The plugin loader: one loadPlugins call over a disk, with registerPlugin *)
(* calls from elsewhere in between.                                        *)
(***************************************************************************)
MaxPluginCalls == 2

disk(builtIn, nodeModules, search) ==
  [builtIn |-> builtIn, nodeModules |-> nodeModules, search |-> search]

Disks ==
  {disk(b, n, c) : b \in BuiltInListings, n \in NodeModulesListings, c \in SearchResults}

\* The plugins other code registers.
CalledPlugins == {plugin(N_core, "none"), plugin(N_baz, "ok")}

\* The registrations the loader made so far.
loaderRegistrations == {i \in 1..Len(loadLog) : loadLog[i].step = "registerPlugin"}

\* The call the CLI makes at start-up.
LoadPlugins ==
  \E d \in Disks :
    /\ loadPc = "idle"
    /\ loadPlugins(d)

RegisterPluginCall ==
  \E p \in CalledPlugins :
    /\ Len(registered) - Cardinality(loaderRegistrations) < MaxPluginCalls
    /\ registerPluginCall(p)

NextLoader ==
  \/ LoadPlugins
  \/ builtInRead
  \/ builtInImported
  \/ builtInReturned
  \/ nodeModulesRead
  \/ nodeModulesImported
  \/ nodeModulesReturned
  \/ configSearched
  \/ userConfigImported
  \/ userConfigReturned
  \/ pluginInitialized
  \/ initializeReturned
  \/ RegisterPluginCall

SpecLoader == Init /\ [][NextLoader]_vars

(***************************************************************************)
(* Properties of the plugin loader (checked under SpecLoader).             *)
(***************************************************************************)
\* The names registerPlugin was called with so far.
registeredNames == {registered[i].name : i \in 1..Len(registered)}

\* The plugin the latest registerPlugin call of that name was given.
lastRegistered(name) ==
  LET made == {i \in 1..Len(registered) : registered[i].name = name}
  IN registered[CHOOSE i \in made : \A j \in made : j <= i]

\* C11: after any sequence of registerPlugin calls, the loader's included,
\* getAllPlugins() has as many entries as there are distinct names among the
\* calls, no two entries share a name, and the entry of a name is the plugin
\* of the latest call under that name.
C11_PluginIdentity ==
  /\ Len(getAllPlugins(registry)) = Cardinality(registeredNames)
  /\ \A i, j \in 1..Len(registry) : registry[i].name = registry[j].name => i = j
  /\ \A name \in registeredNames : getPlugin(registry, name) = <<lastRegistered(name)>>

\* C11 witness: a name was registered twice with different plugins, once of
\* them by the loader, and the registry holds fewer entries than there were
\* calls.
C11_Witness ==
  /\ Len(registry) < Len(registered)
  /\ loaderRegistrations # {}
  /\ \E i, j \in 1..Len(registered) :
       /\ i < j
       /\ registered[i].name = registered[j].name
       /\ registered[i] # registered[j]

\* The phases of loadPlugins, in their documented order.
Phases == <<"builtIn", "nodeModules", "userConfig", "initialize">>

\* The phase a logged step belongs to, as its position in Phases.
phaseRank(e) ==
  IF e.step \in {"initialize", "initialized", "loaded"} THEN 4
  ELSE CHOOSE r \in 1..4 : Phases[r] = e.phase

\* C12: the steps of a loadPlugins call go through the four phases in order
\* and never return to an earlier one: the first step is the start of
\* built-in discovery, a step of another phase than the step before it is
\* the start of the next phase, so every initialize comes after all
\* discovery; and a call that has returned went through all four phases,
\* whatever failed on the way.
C12_PhasesInOrder ==
  /\ \A i \in 1..Len(loadLog) :
       LET before == IF i = 1 THEN 0 ELSE phaseRank(loadLog[i - 1])
       IN /\ phaseRank(loadLog[i]) \in {before, before + 1}
          /\ (phaseRank(loadLog[i]) = before + 1) <=> (loadLog[i].step = "phase")
  /\ loadPc = "done" => \A r \in 1..4 :
       \E i \in 1..Len(loadLog) : loadLog[i] = phaseStarts(Phases[r])

\* C12 witness: a call has returned in which a directory could not be read,
\* a candidate failed to load and a plugin failed to initialize.
C12_Witness ==
  /\ loadPc = "done"
  /\ \E i \in 1..Len(loadLog) : loadLog[i].step = "phaseFailed"
  /\ \E i \in 1..Len(loadLog) : loadLog[i].step = "skipped" /\ loadLog[i].why = "failed"
  /\ \E i \in 1..Len(loadLog) : loadLog[i].step = "initialized" /\ loadLog[i].outcome = "failed"

\* The specifiers of the candidates a discovery phase finds on the disk.
candidatesOf(phase) ==
  IF phase = "builtIn"
  THEN {pathJoin(BuiltInPluginsDir, loadDisk.builtIn.entries[i].name) :
          i \in {k \in 1..Len(loadDisk.builtIn.entries) : loadDisk.builtIn.entries[k].isDirectory}}
  ELSE IF phase = "nodeModules"
  THEN {pathJoin(NodeModulesPath, loadDisk.nodeModules.entries[i].name) :
          i \in {k \in 1..Len(loadDisk.nodeModules.entries) :
                   /\ loadDisk.nodeModules.entries[k].isDirectory
                   /\ startsWith(loadDisk.nodeModules.entries[k].name, MODULE_PREFIX)}}
  ELSE {specifierOf(loadDisk.search.plugins[i].pluginName) :
          i \in {k \in 1..Len(loadDisk.search.plugins) :
                   /\ ~nullish(loadDisk.search.plugins[k].config)
                   /\ loadDisk.search.plugins[k].config.enabled}}

\* The step at position i is the import of that specifier in that phase.
importedAt(i, phase, specifier) == loadLog[i] = imports(phase, specifier)

\* The candidate was passed over because a plugin of its name was there.
alreadyRegistered(phase, specifier) ==
  \E i \in 1..Len(loadLog), k \in 1..Len(loadDisk.search.plugins) :
    /\ phase = "userConfig"
    /\ specifierOf(loadDisk.search.plugins[k].pluginName) = specifier
    /\ loadLog[i] = skips(phase, loadDisk.search.plugins[k].pluginName, "registered")

\* C13: an import that has settled is followed by the registration of the
\* module's default export when that export has a register function, and by
\* a skip (nothing registered) when the import failed or the export is
\* missing or has no register function; once the call has returned every
\* candidate of every phase was tried, the ones after a bad candidate too;
\* and the registry holds only plugins that a module exposed as a default
\* export with a register function (or that other code registered).
C13_DiscoveryFailureIsolation ==
  /\ \A i \in 1..(Len(loadLog) - 1) :
       loadLog[i].step = "import" =>
         LET module == importModule(loadLog[i].specifier)
         IN IF validPlugin(module)
            THEN loadLog[i + 1] = registers(loadLog[i].phase, module.default.name)
            ELSE /\ loadLog[i + 1].step = "skipped"
                 /\ loadLog[i + 1].why \in {"failed", "invalid"}
  /\ loadPc = "done" =>
       \A r \in 1..3 : \A specifier \in candidatesOf(Phases[r]) :
         \/ \E i \in 1..Len(loadLog) : importedAt(i, Phases[r], specifier)
         \/ alreadyRegistered(Phases[r], specifier)
  /\ \A i \in 1..Len(registry) :
       \/ registry[i] \in CalledPlugins
       \/ \E k \in 1..Len(Modules) : Modules[k].module = moduleOf(registry[i])

hasInitialize(p) == p.initialize # "none"

isInitialize(e) == e.step = "initialize"

isInitialized(e) == e.step = "initialized"

\* The plugins of the snapshot that have an initialize function.
capable == SelectSeq(initPlugins, hasInitialize)

\* Phase 4 begins in this step.
initializationBegins ==
  /\ \A i \in 1..Len(loadLog) : loadLog[i] # phaseStarts("initialize")
  /\ \E i \in 1..Len(loadLog') : loadLog'[i] = phaseStarts("initialize")

\* C14: the initialization phase works on the plugins registered when it
\* begins; the initialize calls made so far are those of the first plugins
\* with an initialize function, one call per plugin, in registration order;
\* a call starts only when the one before it has settled, whether it
\* succeeded or failed; and once loadPlugins has returned every such plugin
\* had its call.
C14_InitializationIsolation ==
  /\ [](LET started == SelectSeq(loadLog, isInitialize)
            finished == SelectSeq(loadLog, isInitialized)
        IN /\ Len(started) <= Len(capable)
           /\ \A k \in 1..Len(started) : started[k].name = capable[k].name
           /\ Len(finished) = IF loadPc = "initializing" THEN Len(started) - 1 ELSE Len(started)
           /\ \A k \in 1..Len(finished) :
                /\ finished[k].name = started[k].name
                /\ finished[k].outcome = IF capable[k].initialize = "ok" THEN "ok" ELSE "failed"
           /\ \A i \in 2..Len(loadLog) :
                /\ isInitialize(loadLog[i]) =>
                     \/ loadLog[i - 1] = phaseStarts("initialize")
                     \/ isInitialized(loadLog[i - 1])
                /\ isInitialized(loadLog[i]) => loadLog[i - 1] = initializes(loadLog[i].name)
           /\ loadPc = "done" => Len(started) = Len(capable))
  /\ [][initializationBegins => initPlugins' = getAllPlugins(registry')]_vars

\* C14 witness: loadPlugins has returned after an initialize that threw, a
\* later one that rejected and a still later one that succeeded.
C14_Witness ==
  /\ loadPc = "done"
  /\ \E i, j, k \in 1..Len(capable) :
       /\ i < j /\ j < k
       /\ capable[i].initialize = "throws"
       /\ capable[j].initialize = "rejects"
       /\ capable[k].initialize = "ok"
       /\ \E x \in 1..Len(loadLog) : loadLog[x] = initialized(capable[k].name, "ok")

\* The step at position i is the load of a user-declared package entry:
\* its specifier is the entry's resolved name.
packageEntryLoadedAt(i) ==
  /\ loadLog[i].step = "import"
  /\ loadLog[i].phase = "userConfig"
  /\ startsWith(loadLog[i].specifier, MODULE_PREFIX)

\* C15: a user-declared package entry is never loaded when the loader has
\* already registered a plugin whose name is the entry's resolved name (the
\* identifier with the prefix 'asyncapi-cli-plugin-' added unless present),
\* and a disabled entry is never loaded.
C15_UserDeclaredIdempotent ==
  /\ \A i \in 1..Len(loadLog) :
       packageEntryLoadedAt(i) =>
         \A j \in 1..(i - 1) :
           ~(loadLog[j].step = "registerPlugin" /\ loadLog[j].name = loadLog[i].specifier)
  /\ loadPc # "idle" =>
       \A k \in 1..Len(loadDisk.search.plugins) :
         (/\ ~nullish(loadDisk.search.plugins[k].config)
          /\ ~loadDisk.search.plugins[k].config.enabled) =>
           \A i \in 1..Len(loadLog) :
             loadLog[i] # imports("userConfig",
                                  specifierOf(loadDisk.search.plugins[k].pluginName))

(***************************************************************************)
(* Properties of the hook manager (checked under SpecHooks).               *)
(***************************************************************************)
priorityOf(hook) == hook.options.priority

\* Entry a of a chain belongs before entry b: higher priority, or the same
\* priority and registered earlier.
goesBefore(a, b) ==
  \/ priorityOf(a) > priorityOf(b)
  \/ priorityOf(a) = priorityOf(b) /\ a.id < b.id

\* C1: after any sequence of register calls every hook chain is sorted by
\* descending priority, and handlers of equal priority are in registration
\* order.
C1_ChainsSortedStable ==
  \A name \in DOMAIN hooks :
    \A i, j \in 1..Len(hooks[name]) :
      i < j => goesBefore(hooks[name][i], hooks[name][j])

\* A chain of three handlers, two of them of equal priority, whose order
\* differs from the order of registration.
C1_Witness ==
  \E name \in DOMAIN hooks :
    /\ Len(hooks[name]) = 3
    /\ \E i, j \in 1..3 : i < j /\ priorityOf(hooks[name][i]) = priorityOf(hooks[name][j])
    /\ \E i, j \in 1..3 : i < j /\ hooks[name][i].id > hooks[name][j].id

\* C2: execute invokes the handlers one at a time in chain order: in every
\* call a handler is invoked only when every handler invoked before it has
\* its result recorded (it settled, threw, or its timer fired), and the
\* handlers invoked are the chain's entries in the chain's order, so by
\* descending priority and by registration order on ties.
C2_SequentialInChainOrder ==
  \A c \in 1..Len(calls) :
    LET f == calls[c]
    IN /\ f.pc = "await" =>
            /\ Len(f.invoked) = Len(f.results) + 1
            /\ f.invoked[Len(f.invoked)].hook = f.hook
       /\ f.pc = "returned" => Len(f.invoked) = Len(f.results)
       /\ (~f.mutated /\ f.name \in DOMAIN hooks) =>
            /\ Len(f.invoked) <= Len(hooks[f.name])
            /\ \A k \in 1..Len(f.invoked) : f.invoked[k].hook = hooks[f.name][k]
            /\ \A k, l \in 1..Len(f.invoked) :
                 k < l => goesBefore(f.invoked[k].hook, f.invoked[l].hook)

\* Handlers registered with priorities 5, 20, 10 in that order have run as
\* 20, 10, 5.
C2_Witness ==
  \E c \in 1..Len(calls) :
    LET f == calls[c]
    IN /\ f.pc = "returned"
       /\ ~f.mutated
       /\ Len(f.invoked) = 3
       /\ priorityOf(f.invoked[1].hook) = 20
       /\ priorityOf(f.invoked[2].hook) = 10
       /\ priorityOf(f.invoked[3].hook) = 5
       /\ f.invoked[3].hook.id < f.invoked[1].hook.id
       /\ f.invoked[1].hook.id < f.invoked[2].hook.id

\* What the handler of an invocation did, from its own code: it threw or
\* rejected (the adapter rejects when it is given no opts).
handlerFailed(inv) ==
  LET b == Behaviour(inv.hook.fn)
  IN \/ b.kind \in {"throw", "reject"}
     \/ b.kind = "adapter" /\ Len(inv.args) < 2

\* The message of the error the failing handler raised.
raisedMessage(inv) ==
  LET b == Behaviour(inv.hook.fn)
  IN IF b.kind = "adapter" THEN "TypeError" ELSE b.thrown.message

\* C3: hook isolation.  execute never rejects; each result belongs to the
\* handler invoked at that position; it is failed, with the error the handler
\* raised, exactly when the handler threw or rejected (a handler that neither
\* failed nor returned in time has a timeout failure), and otherwise it is
\* succeeded with the handler's own value; when execute has returned there is
\* one result per handler of the chain, in chain order.
C3_HookIsolation ==
  \A c \in 1..Len(calls) :
    LET f == calls[c]
    IN /\ f.pc \in {"await", "returned"}
       /\ Len(f.results) <= Len(f.invoked)
       /\ \A i \in 1..Len(f.results) :
            LET b == Behaviour(f.invoked[i].hook.fn)
            IN /\ handlerFailed(f.invoked[i]) =>
                    /\ f.results[i].success = FALSE
                    /\ f.results[i].error.isError
                    /\ f.results[i].error.message = raisedMessage(f.invoked[i])
               /\ ~handlerFailed(f.invoked[i]) =>
                    \/ b.kind = "return" /\ f.results[i] = succeeded(b.value)
                    \/ /\ f.results[i].success = FALSE
                       /\ f.results[i].error.message = "timed out"
                       /\ (b.kind = "never" \/ b.ms > 0)
       /\ f.pc = "returned" =>
            /\ Len(f.results) = Len(f.invoked)
            /\ (~f.mutated /\ f.name \in DOMAIN hooks) =>
                 /\ Len(f.results) = Len(hooks[f.name])
                 /\ \A i \in 1..Len(f.results) : f.invoked[i].hook = hooks[f.name][i]

\* A chain of three handlers whose second throws has returned three
\* results: succeeded, failed, succeeded.
C3_Witness ==
  \E c \in 1..Len(calls) :
    LET f == calls[c]
    IN /\ f.pc = "returned"
       /\ ~f.mutated
       /\ Len(f.results) = 3
       /\ f.invoked[2].hook.fn = "thrower"
       /\ f.results[1].success
       /\ ~f.results[2].success
       /\ f.results[3].success
       /\ f.results[1].value = Behaviour(f.invoked[1].hook.fn).value
       /\ f.results[3].value = Behaviour(f.invoked[3].hook.fn).value

(***************************************************************************)
(* Registration during a call (checked under SpecHooks).                   *)
(***************************************************************************)
\* C17: the ordering guarantee holds for every execute call, also one
\* during which a handler is registered under the name being executed:
\* every handler of the chain is invoked at most once, no handler that was
\* in the chain when the call began is skipped, and the priorities of the
\* handlers invoked are non-increasing.
C17_OrderingUnderRegistration ==
  \A c \in 1..Len(calls) :
    LET f == calls[c]
    IN /\ \A k, l \in 1..Len(f.invoked) :
            k < l =>
              /\ f.invoked[k].hook.id # f.invoked[l].hook.id
              /\ priorityOf(f.invoked[k].hook) >= priorityOf(f.invoked[l].hook)
       /\ (f.pc = "returned" /\ f.name \in DOMAIN hooks) =>
            \A i \in 1..Len(hooks[f.name]) :
              hooks[f.name][i].id <= f.start =>
                \E k \in 1..Len(f.invoked) : f.invoked[k].hook = hooks[f.name][i]

(***************************************************************************)
(* Properties of the timeout race (checked under SpecTimeouts).            *)
(***************************************************************************)
\* The handler's work is still going on when the deadline it was registered
\* with (options.timeout, 30000 when none was supplied) has passed.
missesConfiguredDeadline(hook) ==
  LET b == Behaviour(hook.fn)
  IN \/ b.kind = "never"
     \/ b.kind \in {"return", "reject"} /\ b.ms > hook.options.timeout

\* The entry at position i of the call timed out.
timedOut(f, i) ==
  /\ i <= Len(f.results)
  /\ f.results[i].success = FALSE
  /\ f.results[i].error.message = "timed out"

\* C4: timeout isolation.  A handler that does not settle before its
\* configured deadline has a failed result whose error is a timeout error.
C4_TimeoutIsolation ==
  \A c \in 1..Len(calls) :
    \A i \in 1..Len(calls[c].results) :
      missesConfiguredDeadline(calls[c].invoked[i].hook) => timedOut(calls[c], i)

\* There is never more than one result per invocation, and the result of an
\* invocation whose work is still pending after its timer won the race is
\* the timeout failure.
oneResultEach ==
  /\ \A c \in 1..Len(calls) : Len(calls[c].results) <= Len(calls[c].invoked)
  /\ \A work \in pending :
       /\ work.idx <= Len(calls[work.call].results)
       /\ calls[work.call].results[work.idx] =
            failed(timeoutError(calls[work.call].name, work.hook))

\* No step changes a result that is recorded.
resultsKept ==
  \A c \in 1..Len(calls) :
    /\ c <= Len(calls')
    /\ \A i \in 1..Len(calls[c].results) :
         /\ i <= Len(calls'[c].results)
         /\ calls'[c].results[i] = calls[c].results[i]

\* C5: a timeout only records a failed result.  The work of a timed-out
\* handler may complete later and write to the shared context; the result
\* recorded for it is the timeout failure and stays what it is, and no
\* result is added: there is never more than one result per invocation and
\* no step, the late completion included, changes a recorded result.
C5_TimeoutKeepsResult ==
  /\ []oneResultEach
  /\ [][resultsKept]_vars

\* The work of a handler that timed out in a call has completed and written
\* to the context while a later, slow handler of the chain is being awaited.
C5_Witness ==
  \E c \in 1..Len(calls) :
    LET f == calls[c]
    IN /\ f.pc = "await"
       /\ f.hook.fn = "slow"
       /\ \E i \in 1..Len(f.results) :
            /\ timedOut(f, i)
            /\ f.invoked[i].hook.fn = "slow"
            /\ \A work \in pending : ~(work.call = c /\ work.idx = i)
            /\ SlowKey \in DOMAIN context.data
            /\ context.data[SlowKey] = f.invoked[i].hook.id

\* The options a chain entry has when registered with the given options.
suppliedOr(options, key, default) ==
  IF key \in DOMAIN options THEN options[key] ELSE default

\* C19: register merges the supplied options over the defaults: the
\* priority that orders the chain is the supplied priority (10 when none is
\* supplied) and the deadline execute races the handler against is the
\* supplied timeout (30000 ms when none is supplied), for every integer
\* value including 0.
C19_OptionsMergedOverDefaults ==
  \A name \in DOMAIN hooks :
    \A i \in 1..Len(hooks[name]) :
      LET hook == hooks[name][i]
      IN /\ \E r \in TimedRequests \cup {request(COMMAND_NOT_FOUND, Adapter, EmptyObject)} :
              /\ r.name = name
              /\ r.fn = hook.fn
              /\ hook.options.priority = suppliedOr(r.options, "priority", 10)
              /\ hook.options.timeout = suppliedOr(r.options, "timeout", 30000)
         /\ OrElse(hook.options.priority, 0) = hook.options.priority
         /\ timerDelay(hook) = hook.options.timeout

(***************************************************************************)
(* Properties of the command-not-found handler (checked under SpecCnf).    *)
(***************************************************************************)
\* The positions of the run's log at which event e stands.
positionsOf(run, e) == {i \in 1..Len(run.events) : run.events[i] = e}

runCommandPositions(run) == {i \in 1..Len(run.events) : run.events[i].step = "runCommand"}

primaryConfirmed(run) == positionsOf(run, answered("primary", "true")) # {}

alternativeConfirmed(run) == positionsOf(run, answered("alternative", "true")) # {}

\* Right before position x the resolution was stored and then the
\* COMMAND_AFTER hooks were fired and had returned, in that order.
resolutionStoredAndHooksFiredBefore(run, x) ==
  /\ x > 4
  /\ run.events[x - 4] = step("set:suggestedCommand")
  /\ run.events[x - 3] = step("set:suggestedArgv")
  /\ run.events[x - 2] = [step |-> "execute", name |-> COMMAND_AFTER]
  /\ run.events[x - 1] = [step |-> "executed", name |-> COMMAND_AFTER]

\* The resolution in the context is the command and arguments handed to
\* runCommand at position x.
resolutionInContext(run, x) ==
  /\ "suggestedCommand" \in DOMAIN context.data
  /\ "suggestedArgv" \in DOMAIN context.data
  /\ context.data["suggestedCommand"] = run.events[x].command
  /\ <<context.data["suggestedArgv"]>> = run.events[x].args

\* C6: in every run in which the user confirms the primary suggestion,
\* runCommand is invoked only after the resolution (suggestedCommand,
\* suggestedArgv) has been stored into the context and the COMMAND_AFTER
\* hooks have been fired, in that order.
C6_RunCommandAfterResolutionStored ==
  \A r \in 1..Len(runs) :
    primaryConfirmed(runs[r]) =>
      \A x \in runCommandPositions(runs[r]) :
        /\ resolutionStoredAndHooksFiredBefore(runs[r], x)
        /\ resolutionInContext(runs[r], x)

\* C6, amended: the statement holds for every typed id other than 'help';
\* for the id 'help' the confirmed run invokes runCommand('--help') at once,
\* nothing is stored and no COMMAND_AFTER hook is fired.
C6_RunCommandAfterResolutionStoredUnlessHelp ==
  \A r \in 1..Len(runs) :
    LET run == runs[r]
    IN primaryConfirmed(run) =>
         \A x \in runCommandPositions(run) :
           IF run.opts.id = S_help
           THEN /\ run.events[x] = [step |-> "runCommand", command |-> S_dashHelp,
                                    args |-> <<>>]
                /\ run.events[x - 1] = answered("primary", "true")
                /\ "suggestedCommand" \notin DOMAIN context.data
                /\ positionsOf(run, [step |-> "execute", name |-> COMMAND_AFTER]) = {}
           ELSE /\ resolutionStoredAndHooksFiredBefore(run, x)
                /\ resolutionInContext(run, x)

\* The last execute call of run r was made on the named hook, invoked one
\* handler and has its result.
lastCallRan(r, name) ==
  /\ runs[r].call > 0
  /\ calls[runs[r].call].name = name
  /\ Len(calls[runs[r].call].invoked) = 1
  /\ Len(calls[runs[r].call].results) = 1

\* A confirmed primary suggestion for an id other than 'help' has been run,
\* after a COMMAND_AFTER handler ran and returned its result.
C6_Witness ==
  \E r \in 1..Len(runs) :
    /\ runs[r].pc = "Resolved"
    /\ primaryConfirmed(runs[r])
    /\ runs[r].opts.id # S_help
    /\ runCommandPositions(runs[r]) # {}
    /\ lastCallRan(r, COMMAND_AFTER)
    /\ calls[runs[r].call].results[1].success

\* Position i holds the answer to the named prompt, and it is not a
\* confirmation.
notConfirmedAt(run, i, prompt) ==
  /\ run.events[i].step = "answer"
  /\ run.events[i].prompt = prompt
  /\ run.events[i].response # "true"

\* C7: the Fatal state (exit code 127) is reached only after every offered
\* prompt was declined or failed: the primary prompt, and the alternative
\* prompt when there is an alternative; before the exit the error was stored
\* in the context and the 'error' hooks were fired and had returned, in that
\* order; runCommand is never invoked in such a run.
C7_FatalOnlyAfterPromptsExhausted ==
  \A r \in 1..Len(runs) :
    LET run == runs[r]
    IN /\ run.pc = "Fatal" <=> positionsOf(run, [step |-> "exit", code |-> 127]) # {}
       /\ \A x \in 1..Len(run.events) :
            run.events[x].step = "exit" =>
              /\ run.events[x].code = 127
              /\ x = Len(run.events)
              /\ ~primaryConfirmed(run)
              /\ ~alternativeConfirmed(run)
              /\ \E a \in 1..x : notConfirmedAt(run, a, "primary")
              /\ Len(run.alternativeSuggestions) > 0 =>
                   \E a \in 1..x : notConfirmedAt(run, a, "alternative")
              /\ x > 4
              /\ run.events[x - 4].step = "answer"
              /\ run.events[x - 3] = step("set:error")
              /\ run.events[x - 2] = [step |-> "execute", name |-> ERROR_HOOK]
              /\ run.events[x - 1] = [step |-> "executed", name |-> ERROR_HOOK]
              /\ "error" \in DOMAIN context.data
              /\ context.data["error"] = notFoundError(run.opts.id)
              /\ runCommandPositions(run) = {}

\* The run ended in Fatal after both prompts were declined, and the handler on
\* the 'error' hook was invoked.
C7_Witness ==
  \E r \in 1..Len(runs) :
    /\ runs[r].pc = "Fatal"
    /\ positionsOf(runs[r], answered("primary", "false")) # {}
    /\ positionsOf(runs[r], answered("alternative", "cancel")) # {}
    /\ lastCallRan(r, ERROR_HOOK)

\* The terminal state of a run of the CLI's command, from the invocation and
\* the answers alone.
terminalOf(run) ==
  IF run.opts.id = S_dashHelp THEN "Helped"
  ELSE IF Len(visibleCommandIDs(run.opts.config)) = 0 THEN "Empty"
  ELSE IF primaryConfirmed(run) \/ alternativeConfirmed(run) THEN "Resolved"
  ELSE "Fatal"

\* C8: on every invocation the command, the argv and the config are recorded
\* in the context and the COMMAND_BEFORE hooks are fired before anything
\* else is decided; the results of the COMMAND_BEFORE handlers, failed or
\* not, never change the terminal state, which is the one the invocation and
\* the answers determine.
C8_InvocationRecordedFirst ==
  \A r \in 1..Len(runs) :
    LET run == runs[r]
    IN /\ Len(run.events) >= 4
       /\ run.events[1] = step("set:command")
       /\ run.events[2] = step("set:argv")
       /\ run.events[3] = step("set:config")
       /\ run.events[4] = [step |-> "execute", name |-> COMMAND_BEFORE]
       /\ run.pc # "commandBefore" =>
            run.events[5] = [step |-> "executed", name |-> COMMAND_BEFORE]
       /\ "command" \in DOMAIN context.data /\ context.data["command"] = run.opts.id
       /\ "argv" \in DOMAIN context.data /\ context.data["argv"] = run.opts.argv
       /\ "config" \in DOMAIN context.data
       /\ context.data["config"] = Spread(run.opts.config, config)
       /\ run.pc \in Terminal => run.pc = terminalOf(run)

\* A run whose COMMAND_BEFORE handler failed has ended in help all the same.
C8_Witness ==
  \E r \in 1..Len(runs) :
    /\ runs[r].pc = "Helped"
    /\ calls[runs[r].call].name = COMMAND_BEFORE
    /\ Len(calls[runs[r].call].results) >= 1
    /\ ~calls[runs[r].call].results[1].success
    /\ context.data["argv"] = runs[r].opts.argv

\* The positions at which the named prompt is put to the user.
promptPositions(run, prompt) ==
  {p \in 1..Len(run.events) : run.events[p].step = "confirm" /\ run.events[p].prompt = prompt}

\* id is a visible command id of minimum edit distance from the typed id.
closestVisible(id, typed, cli) ==
  LET commandIDs == visibleCommandIDs(cli)
  IN /\ \E k \in 1..Len(commandIDs) : commandIDs[k] = id
     /\ \A k \in 1..Len(commandIDs) :
          levenshtein(typed, id) <= levenshtein(typed, commandIDs[k])

\* The argument vector that remains of invocation o once command id is taken
\* from it.
remainingArgv(o, id) ==
  IF Len(o.argv) > 0 THEN o.argv
  ELSE SubSeq(split(o.id), Len(split(id)) + 1, Len(split(o.id)))

\* Run r puts its primary prompt in this step.
promptsNow(r) == runs[r].pc = "commandBefore" /\ runs'[r].pc = "primaryPrompt"

\* Whenever a run puts its primary prompt for a typed id that is not
\* help-shaped, the suggestion it offers is the visible command id of
\* minimum edit distance.
promptedClosest ==
  \A r \in 1..Len(runs) :
    (promptsNow(r) /\ ~helpPattern(runs[r].opts.id)) =>
      \A p \in promptPositions(runs'[r], "primary") :
        closestVisible(runs'[r].events[p].suggestion, runs[r].opts.id, runs[r].opts.config)

\* C9: end-to-end resolution.  For a typed id that is not help-shaped the
\* primary suggestion is the visible command id of minimum edit distance, and
\* confirming it runs exactly that command with the remaining argument
\* vector: the original argv when it is non-empty, otherwise the segments of
\* the id past the number of segments of the suggestion.
C9_EndToEndResolution ==
  /\ [][promptedClosest]_vars
  /\ [](\A r \in 1..Len(runs) :
          LET run == runs[r]
          IN (~helpPattern(run.opts.id) /\ primaryConfirmed(run)) =>
               \A p \in promptPositions(run, "primary") :
                 \A x \in runCommandPositions(run) :
                   /\ run.events[x].command = run.events[p].suggestion
                   /\ run.events[x].args =
                        <<remainingArgv(run.opts, run.events[p].suggestion)>>)

\* C9, amended: the statement holds when the closest visible id does not
\* start with 'help:'; when it does, confirming runs 'help' with the segments
\* of the suggestion after the first as its arguments.
C9_EndToEndResolutionUnlessHelpTopic ==
  /\ [][promptedClosest]_vars
  /\ [](\A r \in 1..Len(runs) :
          LET run == runs[r]
          IN (~helpPattern(run.opts.id) /\ primaryConfirmed(run)) =>
               \A p \in promptPositions(run, "primary") :
                 \A x \in runCommandPositions(run) :
                   LET prompted == run.events[p].suggestion
                   IN IF startsWith(prompted, S_help \o <<Colon>>)
                      THEN /\ run.events[x].command = S_help
                           /\ run.events[x].args = <<Tail(split(prompted))>>
                      ELSE /\ run.events[x].command = prompted
                           /\ run.events[x].args = <<remainingArgv(run.opts, prompted)>>)

\* 'confit:set:foo' was typed with no argv, 'config:set' was suggested and
\* confirmed, and config:set has been run with the one argument 'foo'.
C9_Witness ==
  \E r \in 1..Len(runs) :
    /\ runs[r].pc = "Resolved"
    /\ runs[r].opts.id = S_confit_set_foo
    /\ runs[r].opts.argv = <<>>
    /\ primaryConfirmed(runs[r])
    /\ \E x \in runCommandPositions(runs[r]) :
         /\ runs[r].events[x].command = S_config_set
         /\ Len(runs[r].events[x].args[1]) = 1
         /\ runs[r].events[x].args[1][1] = <<"f", "o", "o">>

\* C16: the alternative prompt is offered only when the primary prompt was
\* declined or errored and at least one alternative suggestion exists; it
\* offers the first alternative, which is never the primary suggestion;
\* confirming it stores the resolution into the context, fires COMMAND_AFTER
\* and then invokes runCommand with that alternative and the original
\* argument vector unmodified.
C16_AlternativePrompt ==
  \A r \in 1..Len(runs) :
    LET run == runs[r]
    IN /\ \A p \in promptPositions(run, "alternative") :
            /\ p > 1
            /\ notConfirmedAt(run, p - 1, "primary")
            /\ Len(run.alternativeSuggestions) > 0
            /\ run.events[p].suggestion = run.alternativeSuggestions[1]
            /\ \A q \in promptPositions(run, "primary") :
                 /\ q < p
                 /\ run.events[p].suggestion # run.events[q].suggestion
       /\ alternativeConfirmed(run) =>
            /\ promptPositions(run, "alternative") # {}
            /\ \A x \in runCommandPositions(run) :
                 /\ resolutionStoredAndHooksFiredBefore(run, x)
                 /\ resolutionInContext(run, x)
                 /\ run.events[x].command = run.alternativeSuggestions[1]
                 /\ run.events[x].args = <<run.opts.argv>>

\* The primary prompt was declined, the first alternative was confirmed and
\* has been run with the original, non-empty argument vector after a
\* COMMAND_AFTER handler ran.
C16_Witness ==
  \E r \in 1..Len(runs) :
    /\ runs[r].pc = "Resolved"
    /\ positionsOf(runs[r], answered("primary", "false")) # {}
    /\ alternativeConfirmed(runs[r])
    /\ runs[r].opts.argv # <<>>
    /\ runCommandPositions(runs[r]) # {}
    /\ lastCallRan(r, COMMAND_AFTER)

(***************************************************************************)
(* Properties of the command history (checked under SpecHistory).          *)
(***************************************************************************)
\* The last n entries of sequence s, oldest first.
lastEntries(s, n) == SubSeq(s, Len(s) - n + 1, Len(s))

\* C10: the command history never holds more than 100 entries, and what it
\* holds are the most recent entries appended, all of them when fewer than
\* 100 were appended, in the order in which they were appended.
C10_HistoryBounded ==
  /\ "commandHistory" \in DOMAIN config <=> Len(appended) > 0
  /\ "commandHistory" \in DOMAIN config =>
       /\ Len(config.commandHistory) <= 100
       /\ Len(config.commandHistory) = IF Len(appended) < 100 THEN Len(appended) ELSE 100
       /\ config.commandHistory = lastEntries(appended, Len(config.commandHistory))

\* 150 commands were saved, the first two with different commands at the
\* same time of the clock, and the history is the last hundred of them.
C10_Witness ==
  /\ Len(appended) = 150
  /\ appended[1].command # appended[2].command
  /\ appended[1].timestamp = appended[2].timestamp
  /\ "commandHistory" \in DOMAIN config
  /\ Len(config.commandHistory) = 100
  /\ config.commandHistory[1] = appended[51]
  /\ config.commandHistory[100] = appended[150]

(***************************************************************************)
(* The shared context over several runs (checked under SpecRuns).          *)
(***************************************************************************)
\* Every handler invoked by a call that a command-not-found run made through
\* executeWithContext was handed the context as its first argument.
contextHandedOver ==
  \A c \in 1..Len(calls) :
    calls[c].caller > 0 =>
      \A i \in 1..Len(calls[c].invoked) :
        /\ calls[c].invoked[i].args # <<>>
        /\ calls[c].invoked[i].args[1] = ContextInstance

\* No step removes a key from the context, or takes away what the context
\* inherits.
keysKept ==
  /\ \A key \in DOMAIN context.data : key \in DOMAIN context'.data
  /\ context'.proto = context.proto

\* Other code calls set, remove or clear on the context.
explicitContextCall == ContextSet \/ ContextRemove \/ ContextClear

\* C18: the shared context is never cleared automatically: no register,
\* execute, executeWithContext or command-not-found run removes a key, so
\* what one run wrote is there for the handlers of every later run until
\* other code calls clear, remove or set on the context; and
\* executeWithContext passes that one context as the first argument of every
\* handler.
C18_ContextNeverCleared ==
  /\ []contextHandedOver
  /\ [][explicitContextCall \/ keysKept]_vars

\* A later run's COMMAND_BEFORE handler is running with the context as its
\* first argument while the context still holds the error of an earlier run
\* that ended in Fatal.
C18_Witness ==
  \E r \in 1..Len(runs) :
    /\ r > 1
    /\ runs[r].pc = "commandBefore"
    /\ runs[r - 1].pc = "Fatal"
    /\ calls[runs[r].call].pc = "await"
    /\ Len(calls[runs[r].call].invoked) = 1
    /\ calls[runs[r].call].invoked[1].args[1] = ContextInstance
    /\ "error" \in DOMAIN context.data
    /\ context.data["error"].id = S_confi_set
    /\ "command" \in DOMAIN context.data
    /\ context.data["command"] = S_dashHelp

(***************************************************************************)
(* Termination of execute (checked under SpecTermination).                 *)
(***************************************************************************)
\* A timer fired late, and nothing but the set of armed timers changed.
lateTimerStep == timers' # timers /\ \A timer \in timers' : timer \in timers

\* The call of the behaviour is awaiting a handler.
inFlight == calls # <<>> /\ calls[1].pc = "await"

\* The call of the behaviour has returned.
hasReturned == calls # <<>> /\ calls[1].pc = "returned"

\* C20: execute always terminates: whatever the handlers of the chain do
\* (settle, throw, never settle), and given that timers fire, a call in
\* flight eventually returns, with exactly one result per handler
\* invocation; a timer that fires after its handler has settled adds no
\* result and changes no recorded result.
C20_ExecuteTerminates ==
  /\ inFlight ~> hasReturned
  /\ [](hasReturned => Len(calls[1].results) = Len(calls[1].invoked))
  /\ [][lateTimerStep => calls' = calls]_vars

\* A call over a chain with a handler that never settles has returned one
\* result per invocation, and the timer of a handler that had settled has
\* fired since.
C20_Witness ==
  /\ hasReturned
  /\ Len(calls[1].results) = Len(calls[1].invoked)
  /\ \E i \in 1..Len(calls[1].invoked) :
       /\ calls[1].invoked[i].hook.fn = "never"
       /\ timedOut(calls[1], i)
  /\ \E i \in 1..Len(calls[1].invoked) :
       /\ calls[1].results[i].success
       /\ \A timer \in timers : ~(timer.call = 1 /\ timer.idx = i)

====
